---- MODULE Spec2Model ----
(***************************************************************************)
(* A model of the request-signing and response-normalization core of cqvx. *)
(*                                                                         *)
(* Strings whose content the code inspects (error texts, timestamps,       *)
(* methods, paths, bodies) are sequences of one-character strings, so that *)
(* concatenation, lower-casing and substring search are computed as the    *)
(* code computes them.  Opaque strings (API keys, tokens) are TLA+ strings.*)
(***************************************************************************)
EXTENDS Integers, Sequences, FiniteSets, TLC

VARIABLES
    nerr,           \* the NormalizeError call: venue, status, body, returned error
    req,            \* middleware: the *http.Request, mutated in place
    orig,           \* middleware: the request as the caller built it
    origReader,     \* middleware: the caller's body reader (the object req.Body first held)
    origReads,      \* middleware: reads to the end of the caller's body reader
    mwpc,           \* middleware: where RoundTrip stands
    signReq,        \* middleware: the SignRequest handed to the Signer
    signRes,        \* middleware: what the Signer returned
    sent,           \* middleware: the request as next.RoundTrip received it
    sentBody,       \* middleware: the bytes the wrapped transport read from the body
    ret,            \* middleware: what RoundTrip returned
    signerCalls,    \* middleware: calls of Signer.Sign
    transportCalls, \* middleware: calls of next.RoundTrip
    signer,         \* signers: what the constructor returned
    nowMs,          \* signers: the wall clock, in Unix milliseconds
    prevCall,       \* signers: the Sign call before the most recent one
    lastCall,       \* signers: the most recent Sign call and its result
    calls,          \* signers: the Sign calls in progress, one per goroutine
    enumCall,       \* normalizers: one enum mapping call: function, input, result
    tsCall,         \* normalizers: one ParseTimestamp call: input, result
    norm,           \* normalizers: raw bytes, the operation, the results of its calls
    mock,           \* mock client: the Client object
    gor             \* mock client: the goroutines calling it

errVars == <<nerr>>
mwVars == <<req, orig, origReader, origReads, mwpc, signReq, signRes, sent,
            sentBody, ret, signerCalls, transportCalls>>
signVars == <<signer, nowMs, prevCall, lastCall, calls>>
normVars == <<enumCall, tsCall, norm>>
mockVars == <<mock, gor>>
vars == <<errVars, mwVars, signVars, normVars, mockVars>>

(***************************************************************************)
(* Character helpers                                                       *)
(***************************************************************************)
UpperChars == <<"A","B","C","D","E","F","G","H","I","J","K","L","M",
                "N","O","P","Q","R","S","T","U","V","W","X","Y","Z">>
LowerChars == <<"a","b","c","d","e","f","g","h","i","j","k","l","m",
                "n","o","p","q","r","s","t","u","v","w","x","y","z">>

\* coinbase toLower: a byte in 'A'..'Z' is shifted to 'a'..'z', others kept
toLowerChar(c) ==
    IF \E i \in 1..26 : UpperChars[i] = c
    THEN LowerChars[CHOOSE i \in 1..26 : UpperChars[i] = c]
    ELSE c

toLower(s) == [i \in 1..Len(s) |-> toLowerChar(s[i])]

\* coinbase contains: case-insensitive substring search, every start offset
\* from 0 to len(s)-len(substr)
contains(s, substr) ==
    LET ls == toLower(s)
        lsub == toLower(substr)
    IN \E i \in 0..(Len(ls) - Len(lsub)) :
          SubSeq(ls, i + 1, i + Len(lsub)) = lsub

(***************************************************************************)
(* Texts that appear in venue error bodies                                 *)
(***************************************************************************)
Text ==
    [empty |-> <<>>,
     too |-> <<"t","o","o">>,
     small |-> <<"s","m","a","l","l">>,
     processing |-> <<"p","r","o","c","e","s","s","i","n","g">>,
     Insufficient |-> <<"I","n","s","u","f","f","i","c","i","e","n","t">>,
     insufficient |-> <<"i","n","s","u","f","f","i","c","i","e","n","t">>,
     InvalidOrder |-> <<"I","n","v","a","l","i","d"," ","o","r","d","e","r">>,
     DUPLICATE |-> <<"D","U","P","L","I","C","A","T","E">>,
     INSUFFICIENT_FUNDS |-> <<"I","N","S","U","F","F","I","C","I","E","N","T","_","F","U","N","D","S">>,
     insufficient_funds |-> <<"i","n","s","u","f","f","i","c","i","e","n","t","_","f","u","n","d","s">>,
     RATE_LIMIT |-> <<"R","A","T","E","_","L","I","M","I","T">>,
     Space |-> <<" ">>]

(***************************************************************************)
(* HTTP status codes (net/http)                                            *)
(***************************************************************************)
StatusBadRequest == 400
StatusUnauthorized == 401
StatusForbidden == 403
StatusNotFound == 404
StatusTooManyRequests == 429
StatusInternalServerError == 500
StatusBadGateway == 502
StatusServiceUnavailable == 503
StatusGatewayTimeout == 504

\* the statuses the venues' switches name, and 418 for one they do not
Statuses == {StatusBadRequest, StatusUnauthorized, StatusForbidden,
             StatusNotFound, 418, StatusTooManyRequests,
             StatusInternalServerError, StatusBadGateway,
             StatusServiceUnavailable, StatusGatewayTimeout}

(***************************************************************************)
(* Error response bodies.  A body is one of                                *)
(*   empty      zero bytes                                                 *)
(*   malformed  bytes that are not JSON                                    *)
(*   mismatch   JSON whose shape json.Unmarshal rejects for the struct     *)
(*   object     a JSON object with string members                          *)
(* An object carries the members both venues read; a member that is absent *)
(* from the JSON decodes to the empty string, as encoding/json leaves it.  *)
(***************************************************************************)
ObjectBodies ==
    [kind : {"object"},
     error : {Text.empty, Text.too, Text.processing, Text.Insufficient},
     message : {Text.empty, Text.small, Text.InvalidOrder},
     error_details : {Text.empty, Text.DUPLICATE},
     preview_failure_reason : {Text.empty, Text.insufficient},
     code : {Text.empty, Text.INSUFFICIENT_FUNDS, Text.insufficient_funds,
             Text.RATE_LIMIT}]

OpaqueBody(k) ==
    [kind |-> k, error |-> Text.empty, message |-> Text.empty,
     error_details |-> Text.empty, preview_failure_reason |-> Text.empty,
     code |-> Text.empty]

ErrorBodies == ObjectBodies \cup {OpaqueBody("empty"), OpaqueBody("malformed"),
                                  OpaqueBody("mismatch")}

\* len(body) == 0
BodyIsEmpty(body) == body.kind = "empty"

\* json.Unmarshal(body, &x) returns nil
UnmarshalOK(body) == body.kind = "object"

(***************************************************************************)
(* Returned errors.  kind is the Go type of the returned error:            *)
(*   "plain"      the value of fmt.Errorf (no classification type)         *)
(*   "Permanent"  *PermanentError   "Temporary"  *TemporaryError           *)
(*   "RateLimit"  *RateLimitError                                          *)
(* status is the status code printed in the message, raw tells whether the *)
(* message holds string(body), msg is the formatted message's parts.       *)
(***************************************************************************)
PlainError(venue, status, body, withRaw) ==
    [venue |-> venue, kind |-> "plain", code |-> Text.empty, status |-> status,
     raw |-> withRaw, rawBody |-> IF withRaw THEN body ELSE OpaqueBody("empty"),
     msg |-> <<>>]

ClassifiedError(venue, kind, code, status, msg) ==
    [venue |-> venue, kind |-> kind, code |-> code, status |-> status,
     raw |-> FALSE, rawBody |-> OpaqueBody("empty"), msg |-> msg]

(***************************************************************************)
(* Coinbase error normalization                                            *)
(***************************************************************************)
\* the codes coinbase classifyError gives its errors
CoinbaseCode ==
    [AUTH_FAILURE |-> <<"A","U","T","H","_","F","A","I","L","U","R","E">>,
     RATE_LIMIT |-> Text.RATE_LIMIT,
     INVALID_REQUEST |-> <<"I","N","V","A","L","I","D","_","R","E","Q","U","E","S","T">>,
     BAD_REQUEST |-> <<"B","A","D","_","R","E","Q","U","E","S","T">>,
     NOT_FOUND |-> <<"N","O","T","_","F","O","U","N","D">>,
     SERVER_ERROR |-> <<"S","E","R","V","E","R","_","E","R","R","O","R">>,
     UNKNOWN |-> <<"U","N","K","N","O","W","N">>]

\* the patterns of coinbase isClientError
CoinbaseClientErrors ==
    { <<"i","n","v","a","l","i","d">>,
      <<"m","i","s","s","i","n","g">>,
      <<"i","n","s","u","f","f","i","c","i","e","n","t">>,
      <<"e","x","c","e","e","d">>,
      <<"t","o","o"," ","s","m","a","l","l">>,
      <<"t","o","o"," ","l","a","r","g","e">>,
      <<"n","o","t"," ","a","l","l","o","w","e","d">>,
      <<"u","n","s","u","p","p","o","r","t","e","d">>,
      <<"d","u","p","l","i","c","a","t","e">>,
      <<"m","a","l","f","o","r","m","e","d">> }

\* the text coinbase isClientError searches
CoinbaseClientErrorText(cbErr) ==
    cbErr.error \o Text.Space \o cbErr.message \o Text.Space \o cbErr.error_details

\* a plausible slip: the comparison forgets to lower-case the body text
CoinbaseIsClientError_CaseSensitive(cbErr) ==
    LET msg == CoinbaseClientErrorText(cbErr)
    IN \E pattern \in CoinbaseClientErrors :
          \E i \in 0..(Len(msg) - Len(pattern)) :
             SubSeq(msg, i + 1, i + Len(pattern)) = pattern

CoinbaseIsClientError(cbErr) ==
    LET msg == CoinbaseClientErrorText(cbErr)
    IN \E pattern \in CoinbaseClientErrors : contains(msg, pattern)

\* coinbase formatErrorMessage, as the parts it joins
CoinbaseFormatErrorMessage(cbErr) ==
    <<"coinbase api error", cbErr.error, cbErr.message,
      cbErr.error_details, cbErr.preview_failure_reason>>

CoinbaseClassifyError(statusCode, msg, cbErr) ==
    CASE statusCode \in {StatusUnauthorized, StatusForbidden} ->
            ClassifiedError("coinbase", "Permanent", CoinbaseCode.AUTH_FAILURE, statusCode, msg)
      [] statusCode = StatusTooManyRequests ->
            ClassifiedError("coinbase", "RateLimit", CoinbaseCode.RATE_LIMIT, statusCode, msg)
      [] statusCode = StatusBadRequest ->
            IF CoinbaseIsClientError(cbErr)
            THEN ClassifiedError("coinbase", "Permanent", CoinbaseCode.INVALID_REQUEST, statusCode, msg)
            ELSE ClassifiedError("coinbase", "Temporary", CoinbaseCode.BAD_REQUEST, statusCode, msg)
      [] statusCode = StatusNotFound ->
            ClassifiedError("coinbase", "Permanent", CoinbaseCode.NOT_FOUND, statusCode, msg)
      [] statusCode \in {StatusInternalServerError, StatusServiceUnavailable,
                         StatusBadGateway, StatusGatewayTimeout} ->
            ClassifiedError("coinbase", "Temporary", CoinbaseCode.SERVER_ERROR, statusCode, msg)
      [] OTHER ->
            ClassifiedError("coinbase", "Temporary", CoinbaseCode.UNKNOWN, statusCode, msg)

\* the body that cannot be parsed reported like the empty one
CoinbaseNormalizeErrorResult_RawDropped(statusCode, body) ==
    IF BodyIsEmpty(body) \/ ~UnmarshalOK(body)
    THEN PlainError("coinbase", statusCode, body, FALSE)
    ELSE CoinbaseClassifyError(statusCode, CoinbaseFormatErrorMessage(body), body)

CoinbaseNormalizeErrorResult(statusCode, body) ==
    IF BodyIsEmpty(body)
    THEN PlainError("coinbase", statusCode, body, FALSE)
    ELSE IF ~UnmarshalOK(body)
    THEN PlainError("coinbase", statusCode, body, TRUE)
    ELSE CoinbaseClassifyError(statusCode, CoinbaseFormatErrorMessage(body), body)

(***************************************************************************)
(* Prime error normalization                                               *)
(***************************************************************************)
\* the codes of prime isClientError
PrimeClientErrorCodes ==
    { <<"I","N","V","A","L","I","D","_","A","R","G","U","M","E","N","T">>,
      <<"I","N","V","A","L","I","D","_","P","R","O","D","U","C","T">>,
      <<"I","N","V","A","L","I","D","_","O","R","D","E","R">>,
      <<"I","N","V","A","L","I","D","_","O","R","D","E","R","_","I","D">>,
      <<"I","N","V","A","L","I","D","_","P","O","R","T","F","O","L","I","O">>,
      <<"I","N","V","A","L","I","D","_","P","O","R","T","F","O","L","I","O","_","I","D">>,
      Text.INSUFFICIENT_FUNDS,
      <<"O","R","D","E","R","_","N","O","T","_","F","O","U","N","D">>,
      <<"V","A","L","I","D","A","T","I","O","N","_","E","R","R","O","R">> }

PrimeIsClientError(primeErr) == primeErr.code \in PrimeClientErrorCodes

\* prime formatErrorMessage, as the parts it joins
PrimeFormatErrorMessage(primeErr) ==
    <<"prime api error", primeErr.code, primeErr.message>>

PrimeClassifyError(statusCode, msg, primeErr) ==
    CASE statusCode \in {StatusUnauthorized, StatusForbidden} ->
            ClassifiedError("prime", "Permanent", primeErr.code, statusCode, msg)
      [] statusCode = StatusTooManyRequests ->
            ClassifiedError("prime", "RateLimit", primeErr.code, statusCode, msg)
      [] statusCode = StatusBadRequest ->
            IF PrimeIsClientError(primeErr)
            THEN ClassifiedError("prime", "Permanent", primeErr.code, statusCode, msg)
            ELSE ClassifiedError("prime", "Temporary", primeErr.code, statusCode, msg)
      [] statusCode = StatusNotFound ->
            ClassifiedError("prime", "Permanent", primeErr.code, statusCode, msg)
      [] statusCode \in {StatusInternalServerError, StatusServiceUnavailable,
                         StatusBadGateway} ->
            ClassifiedError("prime", "Temporary", primeErr.code, statusCode, msg)
      [] OTHER ->
            ClassifiedError("prime", "Temporary", primeErr.code, statusCode, msg)

PrimeNormalizeErrorResult(statusCode, body) ==
    IF BodyIsEmpty(body)
    THEN PlainError("prime", statusCode, body, FALSE)
    ELSE IF ~UnmarshalOK(body)
    THEN PlainError("prime", statusCode, body, TRUE)
    ELSE PrimeClassifyError(statusCode, PrimeFormatErrorMessage(body), body)

(***************************************************************************)
(* Method sets of the error types, and the checks built on them            *)
(***************************************************************************)
\* the methods each venue declares on its error types; the value of
\* fmt.Errorf has Error only
ErrorMethods(err) ==
    CASE err.kind = "plain" -> {"Error"}
      [] err.kind = "Permanent" -> {"Error", "Unwrap"}
      [] err.kind = "Temporary" -> {"Error", "Unwrap", "Temporary"}
      [] err.kind = "RateLimit" /\ err.venue = "coinbase" ->
            {"Error", "Unwrap", "RateLimit"}
      [] err.kind = "RateLimit" /\ err.venue = "prime" ->
            {"Error", "Unwrap", "Temporary"}

\* prime IsTemporary: err implements interface{ Temporary() bool } and the
\* method answers true (every Temporary method of the repository returns true)
IsTemporary(err) == "Temporary" \in ErrorMethods(err)

\* prime IsPermanent / IsRateLimit: type assertions
IsPermanent(err) == err.kind = "Permanent"
IsRateLimit(err) == err.kind = "RateLimit"

(***************************************************************************)
(* Error normalization as a state machine: each step is one call           *)
(***************************************************************************)
\* before the call: the status code and body handed to NormalizeError
ErrInputs == [venue : {"none"}, status : Statuses, body : ErrorBodies]

ErrIdle == nerr = [venue |-> "none", status |-> StatusBadRequest,
                   body |-> OpaqueBody("empty")]

CoinbaseNormalizeError ==
    /\ nerr.venue = "none"
    /\ UNCHANGED <<mwVars, signVars, normVars, mockVars>>
    /\ nerr' = [venue |-> "coinbase", status |-> nerr.status, body |-> nerr.body,
                err |-> CoinbaseNormalizeErrorResult(nerr.status, nerr.body)]

PrimeNormalizeError ==
    /\ nerr.venue = "none"
    /\ UNCHANGED <<mwVars, signVars, normVars, mockVars>>
    /\ nerr' = [venue |-> "prime", status |-> nerr.status, body |-> nerr.body,
                err |-> PrimeNormalizeErrorResult(nerr.status, nerr.body)]

(***************************************************************************)
(* Request strings                                                         *)
(***************************************************************************)
S_GET == <<"G","E","T">>
S_POST == <<"P","O","S","T">>
S_PathA == <<"/","a">>
S_PathAB == <<"/","a","b">>
S_Ten == <<"1","0">>

(***************************************************************************)
(* Signing middleware (authTransport.RoundTrip)                            *)
(*                                                                         *)
(* A body reader is a single-pass stream: data, the read position, and     *)
(* whether reading it fails.  Header names are in the canonical form       *)
(* net/http keeps them in; CanonicalHeaderKey maps the spellings a Signer  *)
(* may use to it.  The query string is the sequence of its name=value      *)
(* pairs.                                                                  *)
(***************************************************************************)
MaxBodyLen == 2
BodyChars == {"b", "c"}

RECURSIVE SeqsUpTo(_, _)
SeqsUpTo(S, n) ==
    IF n = 0 THEN {<<>>}
    ELSE LET shorter == SeqsUpTo(S, n - 1)
         IN shorter \cup {Append(q, c) : q \in shorter, c \in S}

BodyData == SeqsUpTo(BodyChars, MaxBodyLen)

NilReader == [nil |-> TRUE, data |-> <<>>, pos |-> 0, fails |-> FALSE]
Reader(data, fails) == [nil |-> FALSE, data |-> data, pos |-> 0, fails |-> fails]

\* a []byte: nil, or a slice with these bytes
NilBytes == [nil |-> TRUE, bytes |-> <<>>]
Bytes(b) == [nil |-> FALSE, bytes |-> b]

\* io.ReadAll(r): the bytes from the read position to the end, or the
\* reader's failure; the reader is left at its end
ReadAll(r) ==
    [bytes |-> IF r.fails THEN <<>> ELSE SubSeq(r.data, r.pos + 1, Len(r.data)),
     err |-> r.fails,
     after |-> [r EXCEPT !.pos = Len(r.data)]]

\* a plausible slip: the body is read for signing and never put back, so
\* req.Body stays the drained reader
RestoreBody_Drained(body) ==
    [nil |-> FALSE, data |-> body, pos |-> Len(body), fails |-> FALSE]

\* io.NopCloser(bytes.NewReader(body))
RestoreBody(body) == Reader(body, FALSE)

\* textproto.CanonicalMIMEHeaderKey on the header names of the model
CanonicalHeaderKey(name) ==
    CASE name = "x-sig" -> "X-Sig"
      [] name = "x-auth" -> "X-Auth"
      [] OTHER -> name

\* http.Header.Get: the first value under the canonical key, "" when absent
HeaderGet(h, name) ==
    LET k == CanonicalHeaderKey(name)
    IN IF k \in DOMAIN h /\ Len(h[k]) > 0 THEN h[k][1] ELSE ""

\* a plausible slip: Header.Add in place of Header.Set, which keeps the
\* values already there in front of the new one
HeaderSet_Add(h, key, value) ==
    LET k == CanonicalHeaderKey(key)
    IN [n \in DOMAIN h \cup {k} |->
           IF n = k THEN (IF k \in DOMAIN h THEN Append(h[k], value) ELSE <<value>>)
           ELSE h[n]]

\* http.Header.Set: the canonical key now holds exactly this one value
HeaderSet(h, key, value) ==
    LET k == CanonicalHeaderKey(key)
    IN [n \in DOMAIN h \cup {k} |-> IF n = k THEN <<value>> ELSE h[n]]

\* for key, value := range result.Headers { req.Header.Set(key, value) }
RECURSIVE ApplyHeaders(_, _)
ApplyHeaders(h, headers) ==
    IF DOMAIN headers = {} THEN h
    ELSE LET key == CHOOSE k \in DOMAIN headers : TRUE
             rest == [k \in DOMAIN headers \ {key} |-> headers[k]]
         IN ApplyHeaders(HeaderSet(h, key, headers[key]), rest)

\* the names a query string may hold, in the order url.Values.Encode sorts them
QueryNameOrder == <<"api_key", "existing", "signature">>

\* url.URL.Query(): name -> its values, in the order they appear
RECURSIVE URLQuery(_)
URLQuery(raw) ==
    IF raw = <<>> THEN <<>>
    ELSE LET front == URLQuery(SubSeq(raw, 1, Len(raw) - 1))
             pair == raw[Len(raw)]
             name == pair[1]
         IN [n \in DOMAIN front \cup {name} |->
                IF n = name
                THEN (IF name \in DOMAIN front THEN Append(front[name], pair[2])
                      ELSE <<pair[2]>>)
                ELSE front[n]]

\* url.Values.Set: the name now holds exactly this one value
ValuesSet(q, key, value) ==
    [n \in DOMAIN q \cup {key} |-> IF n = key THEN <<value>> ELSE q[n]]

\* for key, value := range result.QueryParams { q.Set(key, value) }
RECURSIVE ApplyParams(_, _)
ApplyParams(q, params) ==
    IF DOMAIN params = {} THEN q
    ELSE LET key == CHOOSE k \in DOMAIN params : TRUE
             rest == [k \in DOMAIN params \ {key} |-> params[k]]
         IN ApplyParams(ValuesSet(q, key, params[key]), rest)

\* url.Values.Encode: the pairs sorted by name, a name's values in order
RECURSIVE EncodeFrom(_, _)
EncodeFrom(q, i) ==
    IF i > Len(QueryNameOrder) THEN <<>>
    ELSE LET name == QueryNameOrder[i]
             own == IF name \in DOMAIN q
                    THEN [j \in 1..Len(q[name]) |-> <<name, q[name][j]>>]
                    ELSE <<>>
         IN own \o EncodeFrom(q, i + 1)

ValuesEncode(q) == EncodeFrom(q, 1)

\* if len(result.QueryParams) > 0 { q := req.URL.Query(); ...; RawQuery = q.Encode() }
ApplyQueryParams(raw, params) ==
    IF Cardinality(DOMAIN params) > 0
    THEN ValuesEncode(ApplyParams(URLQuery(raw), params))
    ELSE raw

\* the SignRequest RoundTrip builds: the timestamp is left to the signer
BuildSignRequest(r, body) ==
    [Method |-> r.Method, Path |-> r.Path, Body |-> body,
     Headers |-> r.Header, Timestamp |-> <<>>]

(* The requests a caller hands to RoundTrip *)
MapsOver(names, values) == UNION {[S -> values] : S \in SUBSET names}
MW_Requests ==
    [Method : {S_GET, S_POST}, Path : {S_PathA},
     Header : MapsOver({"Content-Type", "X-Auth"}, {<<"old">>, <<"old", "older">>}),
     RawQuery : { <<>>,
                << <<"existing", "param">> >>,
                << <<"signature", "old">>, <<"existing", "param">> >>,
                << <<"signature", "old">>, <<"api_key", "k0">>, <<"signature", "older">> >> },
     Body : {NilReader} \cup {Reader(d, FALSE) : d \in BodyData}
            \cup {Reader(<<"b">>, TRUE)}]

(* What a Signer may return *)
MW_SignResults == [Headers : MapsOver({"X-Auth", "x-sig"}, {"new"}),
                   QueryParams : MapsOver({"signature", "api_key"}, {"qnew"})]
MW_SignErrors == {"signer failed"}
MW_TransportOutcomes == {[resp |-> "200", err |-> "nil"],
                         [resp |-> "nil", err |-> "transport failed"]}

NoSignRequest == [Method |-> <<>>, Path |-> <<>>, Body |-> NilBytes,
                  Headers |-> <<>>, Timestamp |-> <<>>]
NoSignResult == [returned |-> FALSE, err |-> "nil", Headers |-> <<>>, QueryParams |-> <<>>]
NotSent == [Method |-> <<>>, Path |-> <<>>, Header |-> <<>>, RawQuery |-> <<>>,
            Body |-> NilReader]
NoReturn == [resp |-> "nil", err |-> "nil"]
IdleRequest == [Method |-> S_GET, Path |-> S_PathA, Header |-> <<>>,
                RawQuery |-> <<>>, Body |-> NilReader]

MWIdle ==
    /\ req = IdleRequest /\ orig = IdleRequest /\ origReader = NilReader
    /\ origReads = 0 /\ mwpc = "idle"
    /\ signReq = NoSignRequest /\ signRes = NoSignResult
    /\ sent = NotSent /\ sentBody = NilBytes /\ ret = NoReturn
    /\ signerCalls = 0 /\ transportCalls = 0

MWStart ==
    /\ req \in MW_Requests /\ orig = req /\ origReader = req.Body
    /\ origReads = 0 /\ mwpc = "start"
    /\ signReq = NoSignRequest /\ signRes = NoSignResult
    /\ sent = NotSent /\ sentBody = NilBytes /\ ret = NoReturn
    /\ signerCalls = 0 /\ transportCalls = 0

\* a plausible slip: the error of io.ReadAll is dropped and the bytes read so
\* far are signed
RoundTrip_ReadAndSign_ErrIgnored ==
    /\ mwpc = "start"
    /\ IF req.Body.nil
       THEN /\ signReq' = BuildSignRequest(req, NilBytes)
            /\ UNCHANGED <<req, origReader, origReads>>
       ELSE LET r == ReadAll(req.Body)
            IN /\ origReader' = r.after
               /\ origReads' = origReads + 1
               /\ req' = [req EXCEPT !.Body = RestoreBody(r.bytes)]
               /\ signReq' = BuildSignRequest(req, Bytes(r.bytes))
    /\ signerCalls' = signerCalls + 1
    /\ mwpc' = "signing"
    /\ UNCHANGED <<orig, signRes, sent, sentBody, ret, transportCalls>>
    /\ UNCHANGED <<errVars, signVars, normVars, mockVars>>

\* RoundTrip up to the call of t.signer.Sign: the body is read to its end,
\* closed and replaced by a reader over the buffered bytes (a read failure
\* returns at once); then the SignRequest is built and handed to the Signer
RoundTrip_ReadAndSign ==
    /\ mwpc = "start"
    /\ IF req.Body.nil
       THEN /\ signReq' = BuildSignRequest(req, NilBytes)
            /\ signerCalls' = signerCalls + 1
            /\ mwpc' = "signing"
            /\ UNCHANGED <<req, origReader, origReads, ret>>
       ELSE LET r == ReadAll(req.Body)
            IN /\ origReader' = r.after
               /\ origReads' = origReads + 1
               /\ IF r.err
                  THEN /\ ret' = [resp |-> "nil", err |-> "read failed"]
                       /\ req' = [req EXCEPT !.Body = r.after]
                       /\ mwpc' = "returned"
                       /\ UNCHANGED <<signReq, signerCalls>>
                  ELSE /\ req' = [req EXCEPT !.Body = RestoreBody(r.bytes)]
                       /\ signReq' = BuildSignRequest(req, Bytes(r.bytes))
                       /\ signerCalls' = signerCalls + 1
                       /\ mwpc' = "signing"
                       /\ UNCHANGED ret
    /\ UNCHANGED <<orig, signRes, sent, sentBody, transportCalls>>
    /\ UNCHANGED <<errVars, signVars, normVars, mockVars>>

\* a plausible slip: the Signer's error is dropped and the request is
\* forwarded unsigned
RoundTrip_SignerFailed_Forwards(e) ==
    /\ mwpc = "signing"
    /\ signRes' = [returned |-> TRUE, err |-> e, Headers |-> <<>>, QueryParams |-> <<>>]
    /\ sent' = req
    /\ transportCalls' = transportCalls + 1
    /\ mwpc' = "forwarded"
    /\ UNCHANGED <<req, orig, origReader, origReads, signReq, sentBody, ret,
                   signerCalls>>
    /\ UNCHANGED <<errVars, signVars, normVars, mockVars>>

\* the Signer returned an error: RoundTrip returns (nil, err)
RoundTrip_SignerFailed(e) ==
    /\ mwpc = "signing"
    /\ signRes' = [returned |-> TRUE, err |-> e, Headers |-> <<>>, QueryParams |-> <<>>]
    /\ ret' = [resp |-> "nil", err |-> e]
    /\ mwpc' = "returned"
    /\ UNCHANGED <<req, orig, origReader, origReads, signReq, sent, sentBody,
                   signerCalls, transportCalls>>
    /\ UNCHANGED <<errVars, signVars, normVars, mockVars>>

\* the Signer returned a result: its headers and query parameters are set on
\* the request, and the request is handed to t.next.RoundTrip
RoundTrip_ApplyAndForward(result) ==
    /\ mwpc = "signing"
    /\ signRes' = [returned |-> TRUE, err |-> "nil", Headers |-> result.Headers,
                   QueryParams |-> result.QueryParams]
    /\ LET signed == [req EXCEPT
                         !.Header = ApplyHeaders(req.Header, result.Headers),
                         !.RawQuery = ApplyQueryParams(req.RawQuery, result.QueryParams)]
       IN /\ req' = signed
          /\ sent' = signed
    /\ transportCalls' = transportCalls + 1
    /\ mwpc' = "forwarded"
    /\ UNCHANGED <<orig, origReader, origReads, signReq, sentBody, ret, signerCalls>>
    /\ UNCHANGED <<errVars, signVars, normVars, mockVars>>

\* the wrapped transport reads the request body it was given and answers;
\* RoundTrip returns its answer
Transport_RoundTrip(outcome) ==
    /\ mwpc = "forwarded"
    /\ IF req.Body.nil
       THEN UNCHANGED <<req, sentBody>>
       ELSE LET r == ReadAll(req.Body)
            IN /\ sentBody' = Bytes(r.bytes)
               /\ req' = [req EXCEPT !.Body = r.after]
    /\ ret' = outcome
    /\ mwpc' = "returned"
    /\ UNCHANGED <<orig, origReader, origReads, signReq, signRes, sent,
                   signerCalls, transportCalls>>
    /\ UNCHANGED <<errVars, signVars, normVars, mockVars>>

(***************************************************************************)
(* Signers: shared pieces                                                  *)
(***************************************************************************)
Digits == <<"0","1","2","3","4","5","6","7","8","9">>

\* strconv.FormatInt(n, 10) for n >= 0
RECURSIVE FormatInt(_)
FormatInt(n) ==
    IF n < 10 THEN <<Digits[n + 1]>>
    ELSE Append(FormatInt(n \div 10), Digits[(n % 10) + 1])

\* time.Now().UnixMilli() and time.Now().Unix() of a clock reading kept in
\* milliseconds
UnixMilli(clockMs) == clockMs
Unix(clockMs) == clockMs \div 1000

\* a plausible slip: an absent body is written out as a word
BodyString_NilWritten(body) ==
    IF body.nil THEN <<"n","i","l">> ELSE body.bytes

\* string(req.Body): a nil slice and an empty slice both give ""
BodyString(body) == body.bytes

\* the standard base64 alphabet (encoding/base64 StdEncoding)
B64Alphabet ==
    <<"A","B","C","D","E","F","G","H","I","J","K","L","M","N","O","P",
      "Q","R","S","T","U","V","W","X","Y","Z","a","b","c","d","e","f",
      "g","h","i","j","k","l","m","n","o","p","q","r","s","t","u","v",
      "w","x","y","z","0","1","2","3","4","5","6","7","8","9","+","/">>

IsB64Char(c) == \E i \in 1..64 : B64Alphabet[i] = c
B64Value(c) == (CHOOSE i \in 1..64 : B64Alphabet[i] = c) - 1

\* the bytes of one four-character group; "=" pads the last one or two places
B64Group(g) ==
    LET v1 == B64Value(g[1])
        v2 == B64Value(g[2])
        b1 == v1 * 4 + v2 \div 16
    IN IF g[3] = "=" THEN <<b1>>
       ELSE LET v3 == B64Value(g[3])
                b2 == (v2 % 16) * 16 + v3 \div 4
            IN IF g[4] = "=" THEN <<b1, b2>>
               ELSE <<b1, b2, (v3 % 4) * 64 + B64Value(g[4])>>

B64GroupOK(g, last) ==
    /\ IsB64Char(g[1]) /\ IsB64Char(g[2])
    /\ \/ IsB64Char(g[3]) /\ IsB64Char(g[4])
       \/ last /\ IsB64Char(g[3]) /\ g[4] = "="
       \/ last /\ g[3] = "=" /\ g[4] = "="

RECURSIVE B64Bytes(_)
B64Bytes(s) ==
    IF s = <<>> THEN <<>>
    ELSE B64Group(SubSeq(s, 1, 4)) \o B64Bytes(SubSeq(s, 5, Len(s)))

\* base64.StdEncoding.DecodeString: whole groups of four, padding only at the end
B64DecodeString(s) ==
    LET n == Len(s) \div 4
        ok == /\ Len(s) % 4 = 0
              /\ \A i \in 1..n : B64GroupOK(SubSeq(s, 4 * i - 3, 4 * i), i = n)
    IN [ok |-> ok, bytes |-> IF ok THEN B64Bytes(s) ELSE <<>>]

\* hmac.New(sha256.New, key) over message, then base64: the digest is kept
\* symbolic, different (key, message) pairs giving different digests
HMACSHA256Base64(key, message) == <<"base64", <<"hmac-sha256", key, message>> >>

(***************************************************************************)
(* Sign requests and results                                               *)
(***************************************************************************)
SignRequests ==
    [Method : {S_GET, S_POST}, Path : {S_PathA, S_PathAB},
     Body : {NilBytes, Bytes(<<>>), Bytes(<<"b">>)},
     Timestamp : {<<>>, S_Ten}, Headers : {<<>>}]

\* the request of the message-format test
MessageFormatRequest ==
    [Method |-> S_POST,
     Path |-> <<"/","a","p","i","/","v","1","/","o","r","d","e","r","s">>,
     Body |-> Bytes(<<"{","\"","s","y","m","b","o","l","\"",":","\"","B","T","C","-","U","S","D","\"","}">>),
     Timestamp |-> <<"1","2","3","4","5","6","7","8","9","0">>,
     Headers |-> <<>>]

SignOK(headers) == [ok |-> TRUE, err |-> "nil", Headers |-> headers]
SignError(e) == [ok |-> FALSE, err |-> e, Headers |-> <<>>]

(***************************************************************************)
(* HMAC signer                                                             *)
(***************************************************************************)
HMACConfigs == [APIKey : {"", "key"},
                \* none; "c2VjcmV0" (the base64 of "secret"); padded; not base64;
                \* a length base64 cannot have
                Secret : {<<>>,
                          <<"c","2","V","j","c","m","V","0">>,
                          <<"c","w","=","=">>,
                          <<"n","o","t","-","b","6","4","!">>,
                          <<"c","2","V">>},
                Passphrase : {"", "pass"}]

\* NewHMACSigner's checks, in order
NewHMACSignerResult(config) ==
    IF config.APIKey = "" THEN [ok |-> FALSE, err |-> "API key is required"]
    ELSE IF config.Secret = <<>> THEN [ok |-> FALSE, err |-> "secret is required"]
    ELSE IF config.Passphrase = "" THEN [ok |-> FALSE, err |-> "passphrase is required"]
    ELSE IF ~B64DecodeString(config.Secret).ok
         THEN [ok |-> FALSE, err |-> "secret must be valid base64"]
    ELSE [ok |-> TRUE, err |-> "nil"]

\* a plausible slip: the clock is read even when the request has a timestamp
HMACTimestamp_AlwaysClock(r, clockMs) == FormatInt(Unix(clockMs))

\* the timestamp HMAC signs with: the request's, or the clock's Unix seconds
HMACTimestamp(r, clockMs) ==
    IF r.Timestamp = <<>> THEN FormatInt(Unix(clockMs)) ELSE r.Timestamp

\* a plausible slip: the path is left out of the prehash
HMACPrehash_NoPath(timestamp, r) ==
    timestamp \o r.Method \o BodyString(r.Body)

\* prehash := timestamp + req.Method + req.Path + body
HMACPrehash(timestamp, r) ==
    timestamp \o r.Method \o r.Path \o BodyString(r.Body)

\* HMACSigner.Sign from the prehash on: decode the secret, sign, build headers
HMACSignFinish(config, timestamp, prehash) ==
    LET decoded == B64DecodeString(config.Secret)
    IN IF ~decoded.ok THEN SignError("failed to decode secret")
       ELSE SignOK([h \in {"CB-ACCESS-KEY", "CB-ACCESS-SIGN", "CB-ACCESS-TIMESTAMP",
                           "CB-ACCESS-PASSPHRASE"} |->
                       CASE h = "CB-ACCESS-KEY" -> config.APIKey
                         [] h = "CB-ACCESS-SIGN" ->
                               HMACSHA256Base64(decoded.bytes, prehash)
                         [] h = "CB-ACCESS-TIMESTAMP" -> timestamp
                         [] h = "CB-ACCESS-PASSPHRASE" -> config.Passphrase])

\* HMACSigner.Sign as a whole
HMACSignResult(config, r, clockMs) ==
    LET timestamp == HMACTimestamp(r, clockMs)
    IN HMACSignFinish(config, timestamp, HMACPrehash(timestamp, r))

(***************************************************************************)
(* Bearer signer                                                           *)
(***************************************************************************)
BearerConfigs == [Token : {"", "token"}]

NewBearerSignerResult(config) ==
    IF config.Token = "" THEN [ok |-> FALSE, err |-> "token is required"]
    ELSE [ok |-> TRUE, err |-> "nil"]

BearerSignResult(config, r) ==
    SignOK([h \in {"Authorization"} |-> <<"Bearer ", config.Token>>])

(***************************************************************************)
(* JWT signer.  A PEM private key is described by what the parsers make of *)
(* it: its container (PKCS8 or SEC1) and the key inside.                   *)
(***************************************************************************)
DefaultExpiresIn == 120
ES256CurveBits == 256

PEM_Keys == {"", "not-pem", "pem-garbage", "pkcs8-ec-p256", "sec1-ec-p256",
             "pkcs8-rsa", "sec1-ec-p384"}

JWTConfigs == [KeyName : {"", "org/key"}, PrivateKey : PEM_Keys,
               ExpiresIn : {0, 60}]

\* parseECPrivateKey: pem.Decode, then PKCS8, then SEC1
ParseECPrivateKey(pemKey) ==
    CASE pemKey \in {"", "not-pem"} ->
            [ok |-> FALSE, err |-> "failed to decode PEM block", curveBits |-> 0]
      [] pemKey = "pkcs8-ec-p256" -> [ok |-> TRUE, err |-> "nil", curveBits |-> 256]
      [] pemKey = "pkcs8-rsa" ->
            [ok |-> FALSE, err |-> "key is not an EC private key", curveBits |-> 0]
      [] pemKey = "sec1-ec-p256" -> [ok |-> TRUE, err |-> "nil", curveBits |-> 256]
      [] pemKey = "sec1-ec-p384" -> [ok |-> TRUE, err |-> "nil", curveBits |-> 384]
      [] OTHER ->
            [ok |-> FALSE, err |-> "failed to parse EC private key", curveBits |-> 0]

\* NewJWTSigner: the checks, the default expiry and the parsed key
NewJWTSignerResult(config) ==
    IF config.KeyName = "" THEN [ok |-> FALSE, err |-> "key name is required"]
    ELSE IF config.PrivateKey = "" THEN [ok |-> FALSE, err |-> "private key is required"]
    ELSE IF ~ParseECPrivateKey(config.PrivateKey).ok
         THEN [ok |-> FALSE, err |-> "failed to parse private key"]
    ELSE [ok |-> TRUE, err |-> "nil"]

JWTExpiresIn(config) ==
    IF config.ExpiresIn <= 0 THEN DefaultExpiresIn ELSE config.ExpiresIn

S_DefaultHost == <<"a","p","i",".","c","o","i","n","b","a","s","e",".","c","o","m">>

\* host := req.Headers.Get("Host"), or the default host
JWTHost(r) ==
    IF "Host" \in DOMAIN r.Headers /\ Len(r.Headers["Host"]) > 0
          /\ r.Headers["Host"][1] # <<>>
    THEN r.Headers["Host"][1]
    ELSE S_DefaultHost

\* fmt.Sprintf("%s %s%s", req.Method, host, req.Path)
JWTURI(r) == r.Method \o <<" ">> \o JWTHost(r) \o r.Path

\* what generateNonce may return
NonceOutcomes == {[ok |-> TRUE, nonce |-> "n1"], [ok |-> TRUE, nonce |-> "n2"],
                  [ok |-> FALSE, nonce |-> ""]}

\* the claims and header Sign builds
JWTClaims(config, uri, clockMs) ==
    [iss |-> "cdp", nbf |-> Unix(clockMs),
     exp |-> Unix(clockMs) + JWTExpiresIn(config),
     sub |-> config.KeyName, uri |-> uri]

JWTHeader(config, nonce) ==
    [alg |-> "ES256", typ |-> "JWT", kid |-> config.KeyName, nonce |-> nonce]

\* token.SignedString(s.privateKey) with jwt.SigningMethodES256: the method
\* signs with the key and rejects one whose curve is not its own 256 bits
JWTSignedString(config, header, claims) ==
    LET key == ParseECPrivateKey(config.PrivateKey)
    IN IF key.curveBits # ES256CurveBits
       THEN [ok |-> FALSE, token |-> <<>>]
       ELSE [ok |-> TRUE,
             token |-> <<header, claims, <<"es256", config.PrivateKey, header, claims>> >>]

\* JWTSigner.Sign after the nonce and the clock were read
JWTSignFinish(config, nonceOutcome, claims) ==
    IF ~nonceOutcome.ok THEN SignError("failed to generate nonce")
    ELSE LET signed == JWTSignedString(config, JWTHeader(config, nonceOutcome.nonce),
                                       claims)
         IN IF ~signed.ok THEN SignError("failed to sign JWT")
            ELSE SignOK([h \in {"Authorization"} |-> <<"Bearer ", signed.token>>])

\* JWTSigner.Sign as a whole
JWTSignResult(config, r, clockMs, nonceOutcome) ==
    JWTSignFinish(config, nonceOutcome, JWTClaims(config, JWTURI(r), clockMs))

(***************************************************************************)
(* MPC signer                                                              *)
(***************************************************************************)
MPCConfigs == [APIKey : {"", "key"}, SignerFunc : {"nil", "func"}]

NewMPCSignerResult(config) ==
    IF config.APIKey = "" THEN [ok |-> FALSE, err |-> "API key is required"]
    ELSE IF config.SignerFunc = "nil"
         THEN [ok |-> FALSE, err |-> "signer function is required"]
    ELSE [ok |-> TRUE, err |-> "nil"]

\* the timestamp MPC signs with: the request's, or the clock's Unix milliseconds
MPCTimestamp(r, clockMs) ==
    IF r.Timestamp = <<>> THEN FormatInt(UnixMilli(clockMs)) ELSE r.Timestamp

\* a plausible slip: a separator between the parts of the message
MPCMessage_Separated(timestamp, r) ==
    timestamp \o <<" ">> \o r.Method \o <<" ">> \o r.Path \o <<" ">> \o BodyString(r.Body)

\* message := timestamp + req.Method + req.Path + body
MPCMessage(timestamp, r) ==
    timestamp \o r.Method \o r.Path \o BodyString(r.Body)

\* what the external signing function may answer for a message: a signature
\* of that message, or its own failure
SignerFuncOutcomes(message) ==
    {[ok |-> TRUE, signature |-> <<"mpc-signature", message>>, err |-> "nil"],
     [ok |-> FALSE, signature |-> <<>>, err |-> "external failure"]}

\* a plausible slip: the external error is dropped and the headers are
\* returned with whatever signature came back
MPCSignFinish_ErrorDropped(config, timestamp, outcome) ==
    SignOK([h \in {"X-API-KEY", "X-TIMESTAMP", "X-SIGNATURE"} |->
               CASE h = "X-API-KEY" -> config.APIKey
                 [] h = "X-TIMESTAMP" -> timestamp
                 [] h = "X-SIGNATURE" -> outcome.signature])

\* MPCSigner.Sign after the external signing function answered
MPCSignFinish(config, timestamp, outcome) ==
    IF ~outcome.ok THEN SignError(<<"MPC signing failed: %w", outcome.err>>)
    ELSE SignOK([h \in {"X-API-KEY", "X-TIMESTAMP", "X-SIGNATURE"} |->
                    CASE h = "X-API-KEY" -> config.APIKey
                      [] h = "X-TIMESTAMP" -> timestamp
                      [] h = "X-SIGNATURE" -> outcome.signature])

\* MPCSigner.Sign as a whole
MPCSignResult(config, r, clockMs, outcome) ==
    MPCSignFinish(config, MPCTimestamp(r, clockMs), outcome)

(***************************************************************************)
(* Signers: construction, the clock, and Sign called one call at a time    *)
(***************************************************************************)
MaxTicks == 2

\* the clock starts half a second before a full second and moves in half seconds
ClockTimes == {9500 + 500 * i : i \in 0..MaxTicks}

NoSigner == [variant |-> "none", ok |-> FALSE, err |-> "nil", config |-> <<>>]
Constructed(variant, result, config) ==
    [variant |-> variant, ok |-> result.ok, err |-> result.err, config |-> config]

NoCall == [called |-> FALSE, req |-> <<>>, at |-> 0, out |-> <<>>]
Call(r, at, out) == [called |-> TRUE, req |-> r, at |-> at, out |-> out]

NumCallers == 2
Callers == 1..NumCallers
IdleCall == [pc |-> "idle", req |-> <<>>, local |-> <<>>, env |-> <<>>, out |-> <<>>]

SignIdle ==
    /\ signer = NoSigner /\ nowMs = 9500
    /\ prevCall = NoCall /\ lastCall = NoCall
    /\ calls = [c \in Callers |-> IdleCall]

NewHMACSigner(config) ==
    /\ signer = NoSigner
    /\ signer' = Constructed("hmac", NewHMACSignerResult(config), config)
    /\ UNCHANGED <<nowMs, prevCall, lastCall, calls, errVars, mwVars, normVars, mockVars>>

NewJWTSigner(config) ==
    /\ signer = NoSigner
    /\ signer' = Constructed("jwt", NewJWTSignerResult(config), config)
    /\ UNCHANGED <<nowMs, prevCall, lastCall, calls, errVars, mwVars, normVars, mockVars>>

NewBearerSigner(config) ==
    /\ signer = NoSigner
    /\ signer' = Constructed("bearer", NewBearerSignerResult(config), config)
    /\ UNCHANGED <<nowMs, prevCall, lastCall, calls, errVars, mwVars, normVars, mockVars>>

NewMPCSigner(config) ==
    /\ signer = NoSigner
    /\ signer' = Constructed("mpc", NewMPCSignerResult(config), config)
    /\ UNCHANGED <<nowMs, prevCall, lastCall, calls, errVars, mwVars, normVars, mockVars>>

\* time passes
Clock_Tick ==
    /\ nowMs + 500 \in ClockTimes
    /\ nowMs' = nowMs + 500
    /\ UNCHANGED <<signer, prevCall, lastCall, calls, errVars, mwVars, normVars, mockVars>>

\* a finished Sign call becomes the most recent one
Record(r, out) ==
    /\ prevCall' = lastCall
    /\ lastCall' = Call(r, nowMs, out)
    /\ UNCHANGED <<signer, nowMs, calls, errVars, mwVars, normVars, mockVars>>

\* requests that differ only in what the JWT and Bearer signers look at
SR_MethodAndPath == {r \in SignRequests : r.Body = NilBytes /\ r.Timestamp = <<>>}

\* requests of one method
SR_Get == {r \in SignRequests : r.Method = S_GET}

HMACSigner_Sign(r) ==
    /\ signer.ok /\ signer.variant = "hmac"
    /\ Record(r, HMACSignResult(signer.config, r, nowMs))

JWTSigner_Sign(r, nonceOutcome) ==
    /\ signer.ok /\ signer.variant = "jwt"
    /\ Record(r, JWTSignResult(signer.config, r, nowMs, nonceOutcome))

BearerSigner_Sign(r) ==
    /\ signer.ok /\ signer.variant = "bearer"
    /\ Record(r, BearerSignResult(signer.config, r))

MPCSigner_Sign(r) ==
    /\ signer.ok /\ signer.variant = "mpc"
    /\ \E outcome \in SignerFuncOutcomes(MPCMessage(MPCTimestamp(r, nowMs), r)) :
          Record(r, MPCSignResult(signer.config, r, nowMs, outcome))

(***************************************************************************)
(* Signers: Sign called from several goroutines on one signer.  A call     *)
(* keeps its intermediate values in its own locals; what it reads from     *)
(* outside (the clock, the random source, the external signing function's  *)
(* answer) is noted in env.                                                *)
(***************************************************************************)
ConstructedSigners ==
    {s \in {Constructed("hmac", NewHMACSignerResult(c), c) : c \in HMACConfigs}
           \cup {Constructed("jwt", NewJWTSignerResult(c), c) : c \in JWTConfigs}
           \cup {Constructed("bearer", NewBearerSignerResult(c), c) : c \in BearerConfigs}
           \cup {Constructed("mpc", NewMPCSignerResult(c), c) : c \in MPCConfigs} :
        s.ok}

\* requests of one path and one body
SR_MethodAndTimestamp ==
    {r \in SignRequests : r.Path = S_PathA /\ r.Body = Bytes(<<"b">>)}

NoNonce == [ok |-> FALSE, nonce |-> "unread"]
\* unix: the time.Now().Unix() the call read; unixMilli: its time.Now().UnixMilli()
Env(unix, unixMilli, nonceOutcome, externalOK) ==
    [unix |-> unix, unixMilli |-> unixMilli, nonce |-> nonceOutcome,
     externalOK |-> externalOK]

\* a clock that shows the given Unix second
AtSecond(unix) == unix * 1000

Running(c) == calls[c].pc = "running"

\* a plausible slip: the intermediate values live in the signer, where a call
\* that began later overwrites them
CallLocals_Shared(c) ==
    IF \E d \in Callers : d > c /\ Running(d)
    THEN calls[CHOOSE d \in Callers : d > c /\ Running(d)].local
    ELSE calls[c].local

\* the function-local variables of call c
CallLocals(c) == calls[c].local

Begin(c, r, local, env) ==
    /\ calls[c].pc = "idle"
    /\ calls' = [calls EXCEPT ![c] =
                    [pc |-> "running", req |-> r, local |-> local, env |-> env,
                     out |-> <<>>]]
    /\ UNCHANGED <<signer, nowMs, prevCall, lastCall, errVars, mwVars, normVars, mockVars>>

Return(c, env, out) ==
    /\ Running(c)
    /\ calls' = [calls EXCEPT ![c].pc = "done", ![c].env = env, ![c].out = out]
    /\ UNCHANGED <<signer, nowMs, prevCall, lastCall, errVars, mwVars, normVars, mockVars>>

\* HMACSigner.Sign up to the prehash
HMACSign_Prehash(c, r) ==
    /\ signer.variant = "hmac"
    /\ LET timestamp == HMACTimestamp(r, nowMs)
       IN Begin(c, r, [timestamp |-> timestamp, prehash |-> HMACPrehash(timestamp, r)],
                Env(IF r.Timestamp = <<>> THEN Unix(nowMs) ELSE 0, 0, NoNonce, TRUE))

\* HMACSigner.Sign from the prehash to the return
HMACSign_Return(c) ==
    /\ signer.variant = "hmac"
    /\ Return(c, calls[c].env,
              HMACSignFinish(signer.config, CallLocals(c).timestamp, CallLocals(c).prehash))

\* JWTSigner.Sign up to the uri
JWTSign_URI(c, r) ==
    /\ signer.variant = "jwt"
    /\ Begin(c, r, [uri |-> JWTURI(r)], Env(0, 0, NoNonce, TRUE))

\* JWTSigner.Sign from the nonce to the return
JWTSign_Return(c, nonceOutcome) ==
    /\ signer.variant = "jwt"
    /\ Return(c, Env(Unix(nowMs), 0, nonceOutcome, TRUE),
              JWTSignFinish(signer.config, nonceOutcome,
                            JWTClaims(signer.config, CallLocals(c).uri, nowMs)))

\* BearerSigner.Sign: one expression
BearerSign_Call(c, r) ==
    /\ signer.variant = "bearer"
    /\ calls[c].pc = "idle"
    /\ calls' = [calls EXCEPT ![c] =
                    [pc |-> "done", req |-> r, local |-> <<>>,
                     env |-> Env(0, 0, NoNonce, TRUE),
                     out |-> BearerSignResult(signer.config, r)]]
    /\ UNCHANGED <<signer, nowMs, prevCall, lastCall, errVars, mwVars, normVars, mockVars>>

\* MPCSigner.Sign up to the call of the external signing function
MPCSign_CallSignerFunc(c, r) ==
    /\ signer.variant = "mpc"
    /\ LET timestamp == MPCTimestamp(r, nowMs)
       IN Begin(c, r, [timestamp |-> timestamp, message |-> MPCMessage(timestamp, r),
                       signerFuncCalls |-> 1],
                Env(0, IF r.Timestamp = <<>> THEN UnixMilli(nowMs) ELSE 0, NoNonce, TRUE))

\* a plausible slip: when the external signing function fails it is called
\* once more before Sign gives up
MPCSign_Return_Retried(c, externalOK) ==
    /\ signer.variant = "mpc"
    /\ Running(c)
    /\ IF ~externalOK /\ CallLocals(c).signerFuncCalls = 1
       THEN /\ calls' = [calls EXCEPT ![c].local.signerFuncCalls = 2]
            /\ UNCHANGED <<signer, nowMs, prevCall, lastCall, errVars, mwVars,
                           normVars, mockVars>>
       ELSE \E outcome \in SignerFuncOutcomes(CallLocals(c).message) :
               /\ outcome.ok = externalOK
               /\ Return(c, Env(0, calls[c].env.unixMilli, NoNonce, externalOK),
                         MPCSignFinish(signer.config, CallLocals(c).timestamp, outcome))

\* the external signing function answers and MPCSigner.Sign returns
MPCSign_Return(c, externalOK) ==
    /\ signer.variant = "mpc"
    /\ Running(c)
    /\ \E outcome \in SignerFuncOutcomes(CallLocals(c).message) :
          /\ outcome.ok = externalOK
          /\ Return(c, Env(0, calls[c].env.unixMilli, NoNonce, externalOK),
                    MPCSignFinish(signer.config, CallLocals(c).timestamp, outcome))

\* the goroutine makes its next call
Caller_Again(c) ==
    /\ calls[c].pc = "done"
    /\ calls' = [calls EXCEPT ![c] = IdleCall]
    /\ UNCHANGED <<signer, nowMs, prevCall, lastCall, errVars, mwVars, normVars, mockVars>>

(***************************************************************************)
(* Enum mappings of the normalizers.  A switch statement is a table of     *)
(* rows, each a set of case labels and the enum value returned for them.   *)
(***************************************************************************)
Whitespace == {" ", "\t", "\n", "\r"}

\* strings.TrimSpace: leading and trailing white space removed
TrimSpace(s) ==
    LET kept == {i \in 1..Len(s) : s[i] \notin Whitespace}
    IN  IF kept = {} THEN <<>>
        ELSE SubSeq(s, CHOOSE i \in kept : \A j \in kept : i <= j,
                       CHOOSE i \in kept : \A j \in kept : j <= i)

\* strings.ReplaceAll for one-character old and new
ReplaceAll(s, old, new) == [i \in 1..Len(s) |-> IF s[i] = old THEN new ELSE s[i]]

\* the value of a switch over the table's case labels
Switch(table, s, default) ==
    IF \E row \in table : s \in row[1]
    THEN (CHOOSE row \in table : s \in row[1])[2]
    ELSE default

\* the case labels of the shared Parse* functions
ParseCases ==
    [
      status |-> {
          << {<<"o","p","e","n">>,
              <<"n","e","w">>,
              <<"a","c","t","i","v","e">>,
              <<"p","e","n","d","i","n","g">>,
              <<"a","c","c","e","p","t","e","d">>},
             "ORDER_STATUS_OPEN" >>,
          << {<<"f","i","l","l","e","d">>,
              <<"d","o","n","e">>,
              <<"c","l","o","s","e","d">>,
              <<"c","o","m","p","l","e","t","e">>},
             "ORDER_STATUS_FILLED" >>,
          << {<<"c","a","n","c","e","l","l","e","d">>,
              <<"c","a","n","c","e","l","e","d">>,
              <<"c","a","n","c","e","l","l","e","d","_","b","y","_","u","s","e","r">>,
              <<"c","a","n","c","e","l","e","d","_","b","y","_","u","s","e","r">>},
             "ORDER_STATUS_CANCELLED" >>,
          << {<<"r","e","j","e","c","t","e","d">>,
              <<"f","a","i","l","e","d">>,
              <<"i","n","v","a","l","i","d">>,
              <<"e","x","p","i","r","e","d">>},
             "ORDER_STATUS_REJECTED" >>,
          << {<<"p","a","r","t","i","a","l","l","y","_","f","i","l","l","e","d">>,
              <<"p","a","r","t","i","a","l">>,
              <<"p","a","r","t","i","a","l","_","f","i","l","l">>,
              <<"p","a","r","t","i","a","l","l","y","_","f","i","l","l","e","d","_","a","c","t","i","v","e">>},
             "ORDER_STATUS_PARTIALLY_FILLED" >> },
      type |-> {
          << {<<"l","i","m","i","t">>},
             "ORDER_TYPE_LIMIT" >>,
          << {<<"m","a","r","k","e","t">>},
             "ORDER_TYPE_MARKET" >>,
          << {<<"s","t","o","p">>,
              <<"s","t","o","p","_","l","o","s","s">>,
              <<"s","t","o","p","_","m","a","r","k","e","t">>},
             "ORDER_TYPE_STOP_LOSS" >>,
          << {<<"s","t","o","p","_","l","i","m","i","t">>,
              <<"s","t","o","p","_","l","o","s","s","_","l","i","m","i","t">>},
             "ORDER_TYPE_STOP_LIMIT" >>,
          << {<<"t","r","a","i","l","i","n","g","_","s","t","o","p">>,
              <<"t","r","a","i","l","i","n","g","_","s","t","o","p","_","l","o","s","s">>},
             "ORDER_TYPE_TRAILING_STOP" >>,
          << {<<"p","o","s","t","_","o","n","l","y">>,
              <<"m","a","k","e","r","_","o","n","l","y">>},
             "ORDER_TYPE_POST_ONLY" >>,
          << {<<"i","o","c">>,
              <<"i","m","m","e","d","i","a","t","e","_","o","r","_","c","a","n","c","e","l">>},
             "ORDER_TYPE_IOC" >>,
          << {<<"f","o","k">>,
              <<"f","i","l","l","_","o","r","_","k","i","l","l">>},
             "ORDER_TYPE_FOK" >>,
          << {<<"g","t","c">>,
              <<"g","o","o","d","_","t","i","l","_","c","a","n","c","e","l","l","e","d">>},
             "ORDER_TYPE_GTC" >> },
      side |-> {
          << {<<"b","u","y">>,
              <<"b","i","d">>},
             "ORDER_SIDE_BUY" >>,
          << {<<"s","e","l","l">>,
              <<"a","s","k">>},
             "ORDER_SIDE_SELL" >> },
      tif |-> {
          << {<<"g","t","c">>,
              <<"g","o","o","d","_","t","i","l","_","c","a","n","c","e","l","l","e","d">>,
              <<"g","o","o","d","_","t","i","l","_","c","a","n","c","e","l","e","d">>,
              <<"g","o","o","d","_","t","i","l","l","_","c","a","n","c","e","l","l","e","d">>},
             "TIME_IN_FORCE_GTC" >>,
          << {<<"i","o","c">>,
              <<"i","m","m","e","d","i","a","t","e","_","o","r","_","c","a","n","c","e","l">>},
             "TIME_IN_FORCE_IOC" >>,
          << {<<"f","o","k">>,
              <<"f","i","l","l","_","o","r","_","k","i","l","l">>},
             "TIME_IN_FORCE_FOK" >>,
          << {<<"g","t","d">>,
              <<"g","o","o","d","_","t","i","l","_","d","a","t","e">>,
              <<"g","o","o","d","_","t","i","l","_","t","i","m","e">>},
             "TIME_IN_FORCE_GTD" >> } ]

\* strings.ToLower(strings.TrimSpace(s)), then "-" and " " replaced by "_"
ParseOrderStatus(s) ==
    Switch(ParseCases.status,
           ReplaceAll(ReplaceAll(toLower(TrimSpace(s)), "-", "_"), " ", "_"),
           "ORDER_STATUS_UNSPECIFIED")

ParseOrderType(s) ==
    Switch(ParseCases.type,
           ReplaceAll(ReplaceAll(toLower(TrimSpace(s)), "-", "_"), " ", "_"),
           "ORDER_TYPE_UNSPECIFIED")

\* only lower-cased and trimmed
ParseOrderSide(s) ==
    Switch(ParseCases.side, toLower(TrimSpace(s)), "ORDER_SIDE_UNSPECIFIED")

ParseTimeInForce(s) ==
    Switch(ParseCases.tif,
           ReplaceAll(ReplaceAll(toLower(TrimSpace(s)), "-", "_"), " ", "_"),
           "TIME_IN_FORCE_UNSPECIFIED")

\* the case labels of the Prime map* functions, matched as the venue sent them
PrimeMapCases ==
    [
      type |-> {
          << {<<"M","A","R","K","E","T">>},
             "ORDER_TYPE_MARKET" >>,
          << {<<"L","I","M","I","T">>},
             "ORDER_TYPE_LIMIT" >>,
          << {<<"S","T","O","P","_","L","I","M","I","T">>},
             "ORDER_TYPE_STOP_LIMIT" >>,
          << {<<"T","W","A","P">>},
             "ORDER_TYPE_LIMIT" >>,
          << {<<"V","W","A","P">>},
             "ORDER_TYPE_LIMIT" >>,
          << {<<"B","L","O","C","K">>},
             "ORDER_TYPE_LIMIT" >>,
          << {<<"R","F","Q">>},
             "ORDER_TYPE_LIMIT" >> },
      side |-> {
          << {<<"B","U","Y">>},
             "ORDER_SIDE_BUY" >>,
          << {<<"S","E","L","L">>},
             "ORDER_SIDE_SELL" >> },
      status |-> {
          << {<<"O","P","E","N">>,
              <<"W","O","R","K","I","N","G">>},
             "ORDER_STATUS_OPEN" >>,
          << {<<"F","I","L","L","E","D">>},
             "ORDER_STATUS_FILLED" >>,
          << {<<"C","A","N","C","E","L","L","E","D">>},
             "ORDER_STATUS_CANCELLED" >>,
          << {<<"E","X","P","I","R","E","D">>},
             "ORDER_STATUS_REJECTED" >>,
          << {<<"P","E","N","D","I","N","G">>},
             "ORDER_STATUS_PENDING" >>,
          << {<<"R","E","J","E","C","T","E","D">>},
             "ORDER_STATUS_REJECTED" >> },
      tif |-> {
          << {<<"G","O","O","D","_","U","N","T","I","L","_","D","A","T","E","_","T","I","M","E">>},
             "TIME_IN_FORCE_GTD" >>,
          << {<<"G","O","O","D","_","U","N","T","I","L","_","C","A","N","C","E","L","L","E","D">>},
             "TIME_IN_FORCE_GTC" >>,
          << {<<"I","M","M","E","D","I","A","T","E","_","O","R","_","C","A","N","C","E","L">>},
             "TIME_IN_FORCE_IOC" >>,
          << {<<"F","I","L","L","_","O","R","_","K","I","L","L">>},
             "TIME_IN_FORCE_FOK" >> } ]

PrimeMapOrderType(primeType) ==
    Switch(PrimeMapCases.type, primeType, "ORDER_TYPE_UNSPECIFIED")

PrimeMapOrderSide(primeSide) ==
    Switch(PrimeMapCases.side, primeSide, "ORDER_SIDE_UNSPECIFIED")

PrimeMapOrderStatus(primeStatus) ==
    Switch(PrimeMapCases.status, primeStatus, "ORDER_STATUS_UNSPECIFIED")

\* the default branch returns GTC
PrimeMapTimeInForce(primeTIF) ==
    Switch(PrimeMapCases.tif, primeTIF, "TIME_IN_FORCE_GTC")

\* the enum mappings: the enum kind, the venue ("shared" for the Parse*
\* functions), and the function
EnumMappings ==
    { [kind |-> k, venue |-> v] : k \in {"status", "type", "side", "tif"},
                                  v \in {"shared", "prime"} }

MapEnum(m, s) ==
    CASE m.venue = "shared" /\ m.kind = "status" -> ParseOrderStatus(s)
      [] m.venue = "shared" /\ m.kind = "type"   -> ParseOrderType(s)
      [] m.venue = "shared" /\ m.kind = "side"   -> ParseOrderSide(s)
      [] m.venue = "shared" /\ m.kind = "tif"    -> ParseTimeInForce(s)
      [] m.venue = "prime"  /\ m.kind = "status" -> PrimeMapOrderStatus(s)
      [] m.venue = "prime"  /\ m.kind = "type"   -> PrimeMapOrderType(s)
      [] m.venue = "prime"  /\ m.kind = "side"   -> PrimeMapOrderSide(s)
      [] m.venue = "prime"  /\ m.kind = "tif"    -> PrimeMapTimeInForce(s)

\* the strings handed to the mappings
EnumInputs ==
    { <<"o","p","e","n">>,
      <<"O","P","E","N">>,
      <<" "," ","o","p","e","n"," "," ">>,
      <<"n","e","w">>,
      <<"p","e","n","d","i","n","g">>,
      <<"P","E","N","D","I","N","G">>,
      <<"W","O","R","K","I","N","G">>,
      <<"P","a","r","t","i","a","l","-","F","i","l","l">>,
      <<"p","a","r","t","i","a","l"," ","f","i","l","l">>,
      <<"E","X","P","I","R","E","D">>,
      <<"l","i","m","i","t">>,
      <<"L","I","M","I","T">>,
      <<"T","W","A","P">>,
      <<"s","t","o","p"," ","l","o","s","s">>,
      <<"b","u","y">>,
      <<"B","U","Y">>,
      <<" ","S","e","l","l"," ">>,
      <<"g","t","c">>,
      <<"G","O","O","D","_","U","N","T","I","L","_","C","A","N","C","E","L","L","E","D">>,
      <<"f","i","l","l","-","o","r","-","k","i","l","l">>,
      <<"U","N","K","N","O","W","N">>,
      <<>> }

NoEnumCall == [called |-> FALSE]

\* one call of an enum mapping
EnumMap(m) ==
    /\ enumCall.called = FALSE
    /\ enumCall' = [called |-> TRUE, mapping |-> m, s |-> enumCall.s,
                    out |-> MapEnum(m, enumCall.s)]
    /\ UNCHANGED <<tsCall, norm, errVars, mwVars, signVars, mockVars>>

(***************************************************************************)
(* Shared parsing utilities of the normalizers.                            *)
(*                                                                         *)
(* A float64 is kept as an integer count of units of 1e-7, so that the six *)
(* fraction digits of fmt's %f lose something a check can see; the inputs  *)
(* carry at most seven fraction digits and stay below 200.  An instant is  *)
(* its Unix second, kept as decimal digits (the preceding "-" of a         *)
(* negative one included), and the nanoseconds within the second.          *)
(***************************************************************************)
IsDigits(s) == \A i \in 1..Len(s) : \E d \in 1..10 : Digits[d] = s[i]

\* the number a sequence of decimal digits denotes
RECURSIVE DigitsValue(_)
DigitsValue(s) ==
    IF s = <<>> THEN 0
    ELSE 10 * DigitsValue(SubSeq(s, 1, Len(s) - 1))
         + (CHOOSE d \in 0..9 : Digits[d + 1] = s[Len(s)])

\* leading zeros removed, one digit kept
RECURSIVE StripZeros(_)
StripZeros(s) ==
    IF Len(s) > 1 /\ s[1] = "0" THEN StripZeros(Tail(s)) ELSE s

\* strconv.ParseFloat(s, 64) on a sign, digits and at most one point; any
\* other text is not a finite number ("NaN" and "Inf", which ParseFloat
\* accepts and ParseDecimal then rejects, are with the texts it rejects)
ParseFloat(s) ==
    LET signed == s # <<>> /\ s[1] \in {"-", "+"}
        body == IF signed THEN Tail(s) ELSE s
        points == {i \in 1..Len(body) : body[i] = "."}
        point == IF points = {} THEN Len(body) + 1 ELSE CHOOSE i \in points : TRUE
        int == SubSeq(body, 1, point - 1)
        frac == SubSeq(body, point + 1, Len(body))
        frac7 == [i \in 1..7 |-> IF i <= Len(frac) THEN frac[i] ELSE "0"]
        ok == /\ Cardinality(points) <= 1
              /\ IsDigits(int) /\ IsDigits(frac)
              /\ Len(int) + Len(frac) > 0
        magnitude == DigitsValue(int) * 10^7 + DigitsValue(frac7)
    IN  IF ~ok THEN [err |-> TRUE, f |-> 0]
        ELSE [err |-> FALSE, f |-> IF s[1] = "-" THEN 0 - magnitude ELSE magnitude]

ParseDecimal(s) ==
    LET t == TrimSpace(s)
    IN  IF t = <<>> \/ t = <<"n","u","l","l">>
        THEN [err |-> FALSE, f |-> 0]
        ELSE ParseFloat(t)

ParseDecimalOrZero(s) == IF ParseDecimal(s).err THEN 0 ELSE ParseDecimal(s).f

\* fmt.Sprintf("%f", v): six fraction digits, the seventh rounded to nearest
\* (the inputs have no seventh digit 5, where the binary value decides)
SprintfF(v) ==
    LET magnitude == IF v < 0 THEN 0 - v ELSE v
        q == (magnitude + 5) \div 10
        frac == FormatInt(q % 10^6)
        frac6 == [i \in 1..6 |-> IF i <= 6 - Len(frac) THEN "0"
                                 ELSE frac[i - (6 - Len(frac))]]
    IN  (IF v < 0 THEN <<"-">> ELSE <<>>) \o FormatInt(q \div 10^6) \o <<".">> \o frac6

NilTimestamp == [nil |-> TRUE, seconds |-> <<>>, nanos |-> 0]
Timestamp(seconds, nanos) == [nil |-> FALSE, seconds |-> seconds, nanos |-> nanos]

\* timestamppb.Now()
TimestampNow(clockMs) == Timestamp(FormatInt(clockMs \div 1000), (clockMs % 1000) * 10^6)

isNumeric(s) ==
    LET digits == IF s # <<>> /\ s[1] = "-" THEN Tail(s) ELSE s
    IN  Len(digits) > 0 /\ IsDigits(digits)

\* the seconds taken to end at ten digits
parseUnixTimestamp_TenDigits(s) ==
    LET n == StripZeros(IF s[1] = "-" THEN Tail(s) ELSE s)
        negative == s[1] = "-" /\ n # <<"0">>
        len == Len(n)
    IN  CASE negative \/ len <= 10 ->
               [err |-> FALSE,
                ts |-> Timestamp((IF negative THEN <<"-">> ELSE <<>>) \o n, 0)]
          [] ~negative /\ len \in 11..14 ->
               [err |-> FALSE,
                ts |-> Timestamp(SubSeq(n, 1, len - 3),
                                 DigitsValue(SubSeq(n, len - 2, len)) * 10^6)]
          [] ~negative /\ len \in 15..17 ->
               [err |-> FALSE,
                ts |-> Timestamp(SubSeq(n, 1, len - 6),
                                 DigitsValue(SubSeq(n, len - 5, len)) * 1000)]
          [] OTHER -> [err |-> TRUE, ts |-> NilTimestamp]

\* n < 10^k is read off the number of digits of n; the quotient and the
\* remainder by 1000 and by 1e6 are its leading and its last digits
parseUnixTimestamp(s) ==
    LET n == StripZeros(IF s[1] = "-" THEN Tail(s) ELSE s)
        negative == s[1] = "-" /\ n # <<"0">>
        len == Len(n)
    IN  CASE negative \/ len <= 11 ->
               [err |-> FALSE,
                ts |-> Timestamp((IF negative THEN <<"-">> ELSE <<>>) \o n, 0)]
          [] ~negative /\ len \in 12..14 ->
               [err |-> FALSE,
                ts |-> Timestamp(SubSeq(n, 1, len - 3),
                                 DigitsValue(SubSeq(n, len - 2, len)) * 10^6)]
          [] ~negative /\ len \in 15..17 ->
               [err |-> FALSE,
                ts |-> Timestamp(SubSeq(n, 1, len - 6),
                                 DigitsValue(SubSeq(n, len - 5, len)) * 1000)]
          [] OTHER -> [err |-> TRUE, ts |-> NilTimestamp]

\* time.Parse over the formats list, as a table of the calendar strings the
\* inputs use: the string, its Unix second, its nanoseconds
CalendarTimes ==
    { << <<"2","0","2","1","-","0","1","-","0","1","T","0","0",":","0","0",":","0","0","Z">>,
         <<"1","6","0","9","4","5","9","2","0","0">>, 0 >>,
      << <<"2","0","2","1","-","0","1","-","0","1","T","0","0",":","0","0",":","0","1","Z">>,
         <<"1","6","0","9","4","5","9","2","0","1">>, 0 >>,
      << <<"2","0","2","1","-","0","1","-","0","1","T","0","0",":","0","0",":","0","0",".","5","Z">>,
         <<"1","6","0","9","4","5","9","2","0","0">>, 500000000 >>,
      << <<"2","0","2","1","-","0","1","-","0","1","T","0","0",":","0","0",":","0","0","+","0","0",":","0","0">>,
         <<"1","6","0","9","4","5","9","2","0","0">>, 0 >>,
      << <<"2","0","2","1","-","0","1","-","0","1"," ","0","0",":","0","0",":","0","0">>,
         <<"1","6","0","9","4","5","9","2","0","0">>, 0 >> }

ParseTimestamp(s) ==
    LET t == TrimSpace(s)
    IN  CASE t = <<>> \/ t = <<"n","u","l","l">> ->
               [err |-> FALSE, ts |-> NilTimestamp]
          [] isNumeric(t) /\ t # <<>> -> parseUnixTimestamp(t)
          [] \E row \in CalendarTimes : row[1] = t ->
               LET row == CHOOSE row \in CalendarTimes : row[1] = t
               IN  [err |-> FALSE, ts |-> Timestamp(row[2], row[3])]
          [] OTHER -> [err |-> TRUE, ts |-> NilTimestamp]

\* the strings handed to ParseTimestamp: Unix timestamps at and around the
\* three magnitude thresholds (a base, up to MaxZeros zeros after it, a
\* leading zero, a minus sign, surrounding blanks), the calendar strings,
\* and strings that are no timestamp
MaxZeros == 17

RECURSIVE Zeros(_)
Zeros(k) == IF k = 0 THEN <<>> ELSE <<"0">> \o Zeros(k - 1)

UnixBases ==
    { <<"1","6","0","9","4","5","9","2","0","0">>,
      [i \in 1..11 |-> "9"], [i \in 1..14 |-> "9"], [i \in 1..17 |-> "9"],
      <<"1">>,
      <<"1","6","0","9","4","5","9","2","0","0","1","2","3","4","5","6">> }

TimestampInputs ==
    { sign \o lead \o base \o Zeros(k) :
          sign \in {<<>>, <<"-">>}, lead \in {<<>>, <<"0">>},
          base \in UnixBases, k \in 0..MaxZeros }
    \cup { <<" ">> \o base \o <<" ">> : base \in UnixBases }
    \cup { row[1] : row \in CalendarTimes }
    \cup { <<>>, <<"0">>, <<"-">>, <<"-","0">>, <<"n","u","l","l">>,
           <<"+","1">>, <<"1",".","5">>, <<"1","e","3">>, <<"n","o","w">> }

NoTimestampCall == [called |-> FALSE]

\* one call of ParseTimestamp
ParseTimestamp_Call ==
    /\ tsCall.called = FALSE
    /\ tsCall' = [called |-> TRUE, s |-> tsCall.s, out |-> ParseTimestamp(tsCall.s)]
    /\ UNCHANGED <<enumCall, norm, errVars, mwVars, signVars, mockVars>>

(***************************************************************************)
(* encoding/json.  Raw bytes are described by what the decoder makes of   *)
(* them: nothing (len(raw) == 0), a syntax error, or a JSON value.  A JSON *)
(* value is [t, s, a, m]: t its type, s the text of a string, of a number  *)
(* token or of a truth value, a the elements of an array, m the name/value *)
(* pairs of an object in the order of the text.  A Go type is [k, of].     *)
(***************************************************************************)
Nil == [nil |-> TRUE]
Ptr(v) == [nil |-> FALSE, v |-> v]

Scalar(k) == [k |-> k, of |-> ""]
Slice(elem) == [k |-> "slice", of |-> elem]
Struct(name) == [k |-> "struct", of |-> name]

\* the venue response structs: the fields the normalizers read, as
\* <<Go field, JSON name, Go type>>
Structs ==
    [
      CoinbaseOrderBook |->
          << <<"PriceBook", "pricebook", Struct("PriceBook")>>,
             <<"Time", "time", Scalar("string")>> >>,
      PriceBook |->
          << <<"ProductID", "product_id", Scalar("string")>>,
             <<"Bids", "bids", Slice(Slice(Scalar("interface")))>>,
             <<"Asks", "asks", Slice(Slice(Scalar("interface")))>>,
             <<"Time", "time", Scalar("string")>> >>,
      PrimeOrderBook |->
          << <<"ProductID", "product_id", Scalar("string")>>,
             <<"Bids", "bids", Slice(Slice(Scalar("interface")))>>,
             <<"Asks", "asks", Slice(Slice(Scalar("interface")))>>,
             <<"Time", "time", Scalar("string")>>,
             <<"Sequence", "sequence", Scalar("int64")>> >>,
      CoinbaseTrade |->
          << <<"TradeID", "trade_id", Scalar("string")>>,
             <<"ProductID", "product_id", Scalar("string")>>,
             <<"Price", "price", Scalar("string")>>,
             <<"Size", "size", Scalar("string")>>,
             <<"Time", "time", Scalar("string")>>,
             <<"Side", "side", Scalar("string")>> >>,
      CoinbaseTradesResponse |->
          << <<"Trades", "trades", Slice(Struct("CoinbaseTrade"))>> >>,
      CoinbaseFill |->
          << <<"EntryID", "entry_id", Scalar("string")>>,
             <<"TradeID", "trade_id", Scalar("string")>>,
             <<"OrderID", "order_id", Scalar("string")>>,
             <<"TradeTime", "trade_time", Scalar("string")>>,
             <<"TradeType", "trade_type", Scalar("string")>>,
             <<"Price", "price", Scalar("string")>>,
             <<"Size", "size", Scalar("string")>>,
             <<"Commission", "commission", Scalar("string")>>,
             <<"ProductID", "product_id", Scalar("string")>>,
             <<"LiquidityIndicator", "liquidity_indicator", Scalar("string")>>,
             <<"Side", "side", Scalar("string")>> >>,
      PrimeOrder |->
          << <<"ID", "id", Scalar("string")>>,
             <<"ProductID", "product_id", Scalar("string")>>,
             <<"Side", "side", Scalar("string")>>,
             <<"ClientOrderID", "client_order_id", Scalar("string")>>,
             <<"Type", "type", Scalar("string")>>,
             <<"BaseQuantity", "base_quantity", Scalar("string")>>,
             <<"LimitPrice", "limit_price", Scalar("string")>>,
             <<"Status", "status", Scalar("string")>>,
             <<"TimeInForce", "time_in_force", Scalar("string")>>,
             <<"CreatedAt", "created_at", Scalar("string")>>,
             <<"FilledQuantity", "filled_quantity", Scalar("string")>>,
             <<"AverageFilledPrice", "average_filled_price", Scalar("string")>>,
             <<"Commission", "commission", Scalar("string")>>,
             <<"StopPrice", "stop_price", Scalar("string")>>,
             <<"PostOnly", "post_only", Scalar("bool")>> >>,
      PrimeFill |->
          << <<"FillID", "fill_id", Scalar("string")>>,
             <<"OrderID", "order_id", Scalar("string")>>,
             <<"Symbol", "symbol", Scalar("string")>>,
             <<"MatchID", "match_id", Scalar("string")>>,
             <<"FillPrice", "fill_price", Scalar("float64")>>,
             <<"FillQty", "fill_qty", Scalar("float64")>>,
             <<"ClientOrderID", "client_order_id", Scalar("string")>>,
             <<"Side", "side", Scalar("string")>>,
             <<"Fee", "fee", Scalar("float64")>>,
             <<"OrderStatus", "order_status", Scalar("string")>>,
             <<"EventTime", "event_time", Scalar("string")>> >>,
      PrimeBalance |->
          << <<"Symbol", "symbol", Scalar("string")>>,
             <<"Amount", "amount", Scalar("string")>>,
             <<"Holds", "holds", Scalar("string")>> >> ]

FieldNames(name) == {Structs[name][i][1] : i \in 1..Len(Structs[name])}
FieldOf(name, field) ==
    Structs[name][CHOOSE i \in 1..Len(Structs[name]) : Structs[name][i][1] = field]

\* the zero value of a Go type
RECURSIVE Zero(_)
Zero(type) ==
    CASE type.k = "string"    -> <<>>
      [] type.k = "float64"   -> 0
      [] type.k = "int64"     -> 0
      [] type.k = "bool"      -> FALSE
      [] type.k = "interface" -> [t |-> "nil", v |-> 0]
      [] type.k = "slice"     -> <<>>
      [] type.k = "struct"    ->
           [field \in FieldNames(type.of) |-> Zero(FieldOf(type.of, field)[3])]

\* the object member a field is decoded from: the last one of its name
HasMember(pairs, name) == \E i \in 1..Len(pairs) : pairs[i][1] = name
Member(pairs, name) ==
    pairs[CHOOSE i \in 1..Len(pairs) :
            /\ pairs[i][1] = name
            /\ \A j \in 1..Len(pairs) : pairs[j][1] = name => j <= i][2]

\* json.Unmarshal of a JSON value into a Go value of the type: whether it
\* reports an error, and the value.  null leaves the zero value; a value of
\* another JSON type than the Go type takes is an UnmarshalTypeError; an
\* interface{} takes a number as float64 and a string as string
RECURSIVE Decode(_, _)
Decode(json, type) ==
    CASE json.t = "null" -> [err |-> FALSE, val |-> Zero(type)]
      [] json.t # "null" /\ type.k = "string" ->
           IF json.t = "str" THEN [err |-> FALSE, val |-> json.s]
           ELSE [err |-> TRUE, val |-> Zero(type)]
      [] json.t # "null" /\ type.k = "float64" ->
           IF json.t = "num" THEN [err |-> FALSE, val |-> ParseFloat(json.s).f]
           ELSE [err |-> TRUE, val |-> Zero(type)]
      [] json.t # "null" /\ type.k = "int64" ->
           IF json.t = "num" /\ IsDigits(json.s)
           THEN [err |-> FALSE, val |-> DigitsValue(json.s)]
           ELSE [err |-> TRUE, val |-> Zero(type)]
      [] json.t # "null" /\ type.k = "bool" ->
           IF json.t = "bool" THEN [err |-> FALSE, val |-> json.s = <<"true">>]
           ELSE [err |-> TRUE, val |-> Zero(type)]
      [] json.t # "null" /\ type.k = "interface" ->
           [err |-> FALSE,
            val |-> CASE json.t = "num" -> [t |-> "float64", v |-> ParseFloat(json.s).f]
                      [] json.t = "str" -> [t |-> "string", v |-> json.s]
                      [] OTHER -> [t |-> json.t, v |-> 0]]
      [] json.t # "null" /\ type.k = "slice" ->
           IF json.t = "arr"
           THEN LET elems == [i \in 1..Len(json.a) |-> Decode(json.a[i], type.of)]
                IN  [err |-> \E i \in 1..Len(elems) : elems[i].err,
                     val |-> [i \in 1..Len(elems) |-> elems[i].val]]
           ELSE [err |-> TRUE, val |-> Zero(type)]
      [] json.t # "null" /\ type.k = "struct" ->
           IF json.t = "obj"
           THEN LET fields == [field \in FieldNames(type.of) |->
                        LET f == FieldOf(type.of, field)
                        IN  IF HasMember(json.m, f[2])
                            THEN Decode(Member(json.m, f[2]), f[3])
                            ELSE [err |-> FALSE, val |-> Zero(f[3])]]
                IN  [err |-> \E field \in FieldNames(type.of) : fields[field].err,
                     val |-> [field \in FieldNames(type.of) |-> fields[field].val]]
           ELSE [err |-> TRUE, val |-> Zero(type)]

\* json.Unmarshal(raw, &v) for a struct v
Unmarshal(raw, name) ==
    IF raw.kind = "json" THEN Decode(raw.json, Struct(name))
    ELSE [err |-> TRUE, val |-> Zero(Struct(name))]

(***************************************************************************)
(* Normalizers.  A call returns [err, record]: err is "nil" or the text    *)
(* the returned error starts with, record is Nil or points to the          *)
(* canonical record.  An optional field of a canonical record is Nil or    *)
(* points to its value.  The product of two float64 is kept as the pair of *)
(* its factors.                                                            *)
(***************************************************************************)
Failed(err) == [err |-> err, record |-> Nil]
Returned(record) == [err |-> "nil", record |-> Ptr(record)]

\* a reversed list, what a sort of ascending levels into descending gives
CoinbaseParseOrderBookLevels_Reversed(levels) ==
    IF \E i \in 1..Len(levels) :
           \/ Len(levels[i]) < 2
           \/ levels[i][1].t \notin {"string", "float64"}
           \/ levels[i][2].t \notin {"string", "float64"}
    THEN [err |-> TRUE, levels |-> <<>>]
    ELSE [err |-> FALSE,
          levels |-> [i \in 1..Len(levels) |->
              LET level == levels[Len(levels) + 1 - i]
                  number(x) == ParseDecimalOrZero(IF x.t = "string" THEN x.v
                                                  ELSE SprintfF(x.v))
              IN  [Price |-> Ptr(number(level[1])),
                   Quantity |-> Ptr(number(level[2])),
                   OrderCount |-> Nil]]]

\* coinbase parseOrderBookLevels: a string is parsed, a float64 is printed
\* with %f and parsed; int32(count) cuts the fraction off
CoinbaseParseOrderBookLevels(levels) ==
    IF \E i \in 1..Len(levels) :
           \/ Len(levels[i]) < 2
           \/ levels[i][1].t \notin {"string", "float64"}
           \/ levels[i][2].t \notin {"string", "float64"}
    THEN [err |-> TRUE, levels |-> <<>>]
    ELSE [err |-> FALSE,
          levels |-> [i \in 1..Len(levels) |->
              LET level == levels[i]
                  number(x) == ParseDecimalOrZero(IF x.t = "string" THEN x.v
                                                  ELSE SprintfF(x.v))
              IN  [Price |-> Ptr(number(level[1])),
                   Quantity |-> Ptr(number(level[2])),
                   OrderCount |->
                       CASE Len(level) > 2 /\ level[3].t = "float64" ->
                              Ptr(level[3].v \div 10^7)
                         [] Len(level) > 2 /\ level[3].t = "string"
                              /\ ParseDecimalOrZero(level[3].v) > 0 ->
                              Ptr(ParseDecimalOrZero(level[3].v) \div 10^7)
                         [] OTHER -> Nil]]]

\* prime parseOrderBookLevels: a string is parsed, a float64 is taken as it
\* is; a level of price 0 and size 0 is skipped
PrimeParseOrderBookLevels(levels) ==
    IF \E i \in 1..Len(levels) :
           \/ Len(levels[i]) < 2
           \/ levels[i][1].t \notin {"string", "float64"}
           \/ levels[i][2].t \notin {"string", "float64"}
    THEN [err |-> TRUE, levels |-> <<>>]
    ELSE LET number(x) == IF x.t = "string" THEN ParseDecimalOrZero(x.v) ELSE x.v
             converted == [i \in 1..Len(levels) |->
                              [Price |-> Ptr(number(levels[i][1])),
                               Quantity |-> Ptr(number(levels[i][2])),
                               OrderCount |-> Nil]]
             kept(level) == ~(level.Price.v = 0 /\ level.Quantity.v = 0)
         IN  [err |-> FALSE, levels |-> SelectSeq(converted, kept)]

\* the timestamp of an order book: the venue's when it parses, else the
\* clock's
OrderBookTimestamp(timeStr, clockMs) ==
    IF timeStr # <<>> /\ ~ParseTimestamp(timeStr).err
    THEN ParseTimestamp(timeStr).ts
    ELSE TimestampNow(clockMs)

\* best bid, best ask, spread and mid price from the converted lists (the
\* mid price in whole units of 1e-7)
OrderBookRecord(venueId, productID, timestamp, bids, asks, sequence) ==
    LET bestBid == IF Len(bids) > 0 THEN bids[1].Price ELSE Nil
        bestAsk == IF Len(asks) > 0 THEN asks[1].Price ELSE Nil
        both == ~bestBid.nil /\ ~bestAsk.nil
    IN  [VenueId |-> Ptr(venueId), VenueSymbol |-> Ptr(productID),
         Timestamp |-> timestamp, Bids |-> bids, Asks |-> asks,
         BestBid |-> bestBid, BestAsk |-> bestAsk,
         Spread |-> IF both THEN Ptr(bestAsk.v - bestBid.v) ELSE Nil,
         MidPrice |-> IF both THEN Ptr((bestBid.v + bestAsk.v) \div 2) ELSE Nil,
         Sequence |-> sequence]

CoinbaseNormalizeOrderBook(raw, clockMs) ==
    LET cbBook == Unmarshal(raw, "CoinbaseOrderBook")
        timeStr(book) == IF book.Time = <<>> THEN book.PriceBook.Time ELSE book.Time
        converted(book, bids, asks) ==
            CASE bids.err -> Failed("failed to parse bids")
              [] ~bids.err /\ asks.err -> Failed("failed to parse asks")
              [] OTHER ->
                   Returned(OrderBookRecord("coinbase", book.PriceBook.ProductID,
                                            OrderBookTimestamp(timeStr(book), clockMs),
                                            bids.levels, asks.levels, Nil))
        decoded(book) ==
            converted(book, CoinbaseParseOrderBookLevels(book.PriceBook.Bids),
                      CoinbaseParseOrderBookLevels(book.PriceBook.Asks))
    IN  CASE raw.kind = "empty" -> Failed("empty orderbook response")
          [] raw.kind # "empty" /\ cbBook.err ->
               Failed("failed to parse coinbase orderbook")
          [] OTHER -> decoded(cbBook.val)

PrimeNormalizeOrderBook(raw, clockMs) ==
    LET primeBook == Unmarshal(raw, "PrimeOrderBook")
        converted(book, bids, asks) ==
            CASE bids.err -> Failed("failed to parse bids")
              [] ~bids.err /\ asks.err -> Failed("failed to parse asks")
              [] OTHER ->
                   Returned(OrderBookRecord("prime", book.ProductID,
                                            OrderBookTimestamp(book.Time, clockMs),
                                            bids.levels, asks.levels,
                                            IF book.Sequence > 0
                                            THEN Ptr(book.Sequence) ELSE Nil))
        decoded(book) ==
            converted(book, PrimeParseOrderBookLevels(book.Bids),
                      PrimeParseOrderBookLevels(book.Asks))
    IN  CASE raw.kind = "empty" -> Failed("empty orderbook response")
          [] raw.kind # "empty" /\ primeBook.err ->
               Failed("failed to parse prime orderbook")
          [] OTHER -> decoded(primeBook.val)

RawInputs ==
    { [kind |-> "empty", json |-> [t |-> "null", s |-> <<>>, a |-> <<>>, m |-> <<>>]],
      [kind |-> "syntax error", json |-> [t |-> "null", s |-> <<>>, a |-> <<>>, m |-> <<>>]],
      \* {"pricebook":{"product_id":"BTC-USD","bids":[["50","1.5"],["51","2"]],"asks":[["53","1"],["52","1.2"]],"time":"2021-01-01T00:00:00Z"}}
      [kind |-> "json",
       json |-> [t |-> "obj", s |-> <<>>, a |-> <<>>, m |-> <<<<"pricebook", [t |-> "obj", s |-> <<>>, a |-> <<>>, m |-> <<<<"product_id", [t |-> "str", s |-> <<"B","T","C","-","U","S","D">>, a |-> <<>>, m |-> <<>>]>>,
         <<"bids", [t |-> "arr", s |-> <<>>, a |-> <<[t |-> "arr", s |-> <<>>, a |-> <<[t |-> "str", s |-> <<"5","0">>, a |-> <<>>, m |-> <<>>], [t |-> "str", s |-> <<"1",".","5">>, a |-> <<>>, m |-> <<>>]>>, m |-> <<>>], [t |-> "arr", s |-> <<>>, a |-> <<[t |-> "str", s |-> <<"5","1">>, a |-> <<>>, m |-> <<>>], [t |-> "str", s |-> <<"2">>, a |-> <<>>, m |-> <<>>]>>, m |-> <<>>]>>, m |-> <<>>]>>,
         <<"asks", [t |-> "arr", s |-> <<>>, a |-> <<[t |-> "arr", s |-> <<>>, a |-> <<[t |-> "str", s |-> <<"5","3">>, a |-> <<>>, m |-> <<>>], [t |-> "str", s |-> <<"1">>, a |-> <<>>, m |-> <<>>]>>, m |-> <<>>], [t |-> "arr", s |-> <<>>, a |-> <<[t |-> "str", s |-> <<"5","2">>, a |-> <<>>, m |-> <<>>], [t |-> "str", s |-> <<"1",".","2">>, a |-> <<>>, m |-> <<>>]>>, m |-> <<>>]>>, m |-> <<>>]>>,
         <<"time", [t |-> "str", s |-> <<"2","0","2","1","-","0","1","-","0","1","T","0","0",":","0","0",":","0","0","Z">>, a |-> <<>>, m |-> <<>>]>>>>]>>>>]],
      \* {"pricebook":{"product_id":"BTC-USD","bids":[[50,1.5],[51,2,3]],"asks":[[53,1],[52,1.2]]},"time":"1609459200000"}
      [kind |-> "json",
       json |-> [t |-> "obj", s |-> <<>>, a |-> <<>>, m |-> <<<<"pricebook", [t |-> "obj", s |-> <<>>, a |-> <<>>, m |-> <<<<"product_id", [t |-> "str", s |-> <<"B","T","C","-","U","S","D">>, a |-> <<>>, m |-> <<>>]>>,
         <<"bids", [t |-> "arr", s |-> <<>>, a |-> <<[t |-> "arr", s |-> <<>>, a |-> <<[t |-> "num", s |-> <<"5","0">>, a |-> <<>>, m |-> <<>>], [t |-> "num", s |-> <<"1",".","5">>, a |-> <<>>, m |-> <<>>]>>, m |-> <<>>], [t |-> "arr", s |-> <<>>, a |-> <<[t |-> "num", s |-> <<"5","1">>, a |-> <<>>, m |-> <<>>], [t |-> "num", s |-> <<"2">>, a |-> <<>>, m |-> <<>>], [t |-> "num", s |-> <<"3">>, a |-> <<>>, m |-> <<>>]>>, m |-> <<>>]>>, m |-> <<>>]>>,
         <<"asks", [t |-> "arr", s |-> <<>>, a |-> <<[t |-> "arr", s |-> <<>>, a |-> <<[t |-> "num", s |-> <<"5","3">>, a |-> <<>>, m |-> <<>>], [t |-> "num", s |-> <<"1">>, a |-> <<>>, m |-> <<>>]>>, m |-> <<>>], [t |-> "arr", s |-> <<>>, a |-> <<[t |-> "num", s |-> <<"5","2">>, a |-> <<>>, m |-> <<>>], [t |-> "num", s |-> <<"1",".","2">>, a |-> <<>>, m |-> <<>>]>>, m |-> <<>>]>>, m |-> <<>>]>>>>]>>,
         <<"time", [t |-> "str", s |-> <<"1","6","0","9","4","5","9","2","0","0","0","0","0">>, a |-> <<>>, m |-> <<>>]>>>>]],
      \* {"pricebook":{"bids":[[0.0000001,1]],"asks":[[0.0000002,1]]}}
      [kind |-> "json",
       json |-> [t |-> "obj", s |-> <<>>, a |-> <<>>, m |-> <<<<"pricebook", [t |-> "obj", s |-> <<>>, a |-> <<>>, m |-> <<<<"bids", [t |-> "arr", s |-> <<>>, a |-> <<[t |-> "arr", s |-> <<>>, a |-> <<[t |-> "num", s |-> <<"0",".","0","0","0","0","0","0","1">>, a |-> <<>>, m |-> <<>>], [t |-> "num", s |-> <<"1">>, a |-> <<>>, m |-> <<>>]>>, m |-> <<>>]>>, m |-> <<>>]>>,
         <<"asks", [t |-> "arr", s |-> <<>>, a |-> <<[t |-> "arr", s |-> <<>>, a |-> <<[t |-> "num", s |-> <<"0",".","0","0","0","0","0","0","2">>, a |-> <<>>, m |-> <<>>], [t |-> "num", s |-> <<"1">>, a |-> <<>>, m |-> <<>>]>>, m |-> <<>>]>>, m |-> <<>>]>>>>]>>>>]],
      \* {"pricebook":{"bids":[],"asks":[["52","1","4"]],"time":"yesterday"}}
      [kind |-> "json",
       json |-> [t |-> "obj", s |-> <<>>, a |-> <<>>, m |-> <<<<"pricebook", [t |-> "obj", s |-> <<>>, a |-> <<>>, m |-> <<<<"bids", [t |-> "arr", s |-> <<>>, a |-> <<>>, m |-> <<>>]>>,
         <<"asks", [t |-> "arr", s |-> <<>>, a |-> <<[t |-> "arr", s |-> <<>>, a |-> <<[t |-> "str", s |-> <<"5","2">>, a |-> <<>>, m |-> <<>>], [t |-> "str", s |-> <<"1">>, a |-> <<>>, m |-> <<>>], [t |-> "str", s |-> <<"4">>, a |-> <<>>, m |-> <<>>]>>, m |-> <<>>]>>, m |-> <<>>]>>,
         <<"time", [t |-> "str", s |-> <<"y","e","s","t","e","r","d","a","y">>, a |-> <<>>, m |-> <<>>]>>>>]>>>>]],
      \* {"pricebook":{"bids":[["50"]],"asks":[]}}
      [kind |-> "json",
       json |-> [t |-> "obj", s |-> <<>>, a |-> <<>>, m |-> <<<<"pricebook", [t |-> "obj", s |-> <<>>, a |-> <<>>, m |-> <<<<"bids", [t |-> "arr", s |-> <<>>, a |-> <<[t |-> "arr", s |-> <<>>, a |-> <<[t |-> "str", s |-> <<"5","0">>, a |-> <<>>, m |-> <<>>]>>, m |-> <<>>]>>, m |-> <<>>]>>,
         <<"asks", [t |-> "arr", s |-> <<>>, a |-> <<>>, m |-> <<>>]>>>>]>>>>]],
      \* {"pricebook":{"bids":[[true,"1"]],"asks":[]}}
      [kind |-> "json",
       json |-> [t |-> "obj", s |-> <<>>, a |-> <<>>, m |-> <<<<"pricebook", [t |-> "obj", s |-> <<>>, a |-> <<>>, m |-> <<<<"bids", [t |-> "arr", s |-> <<>>, a |-> <<[t |-> "arr", s |-> <<>>, a |-> <<[t |-> "bool", s |-> <<"true">>, a |-> <<>>, m |-> <<>>], [t |-> "str", s |-> <<"1">>, a |-> <<>>, m |-> <<>>]>>, m |-> <<>>]>>, m |-> <<>>]>>,
         <<"asks", [t |-> "arr", s |-> <<>>, a |-> <<>>, m |-> <<>>]>>>>]>>>>]],
      \* {"pricebook":{"bids":"none"}}
      [kind |-> "json",
       json |-> [t |-> "obj", s |-> <<>>, a |-> <<>>, m |-> <<<<"pricebook", [t |-> "obj", s |-> <<>>, a |-> <<>>, m |-> <<<<"bids", [t |-> "str", s |-> <<"n","o","n","e">>, a |-> <<>>, m |-> <<>>]>>>>]>>>>]],
      \* {"product_id":"BTC-USD","bids":[["50","1.5"],["0","0"],["51","2"]],"asks":[[53,1],[52,1.2]],"time":"1609459200","sequence":7}
      [kind |-> "json",
       json |-> [t |-> "obj", s |-> <<>>, a |-> <<>>, m |-> <<<<"product_id", [t |-> "str", s |-> <<"B","T","C","-","U","S","D">>, a |-> <<>>, m |-> <<>>]>>,
         <<"bids", [t |-> "arr", s |-> <<>>, a |-> <<[t |-> "arr", s |-> <<>>, a |-> <<[t |-> "str", s |-> <<"5","0">>, a |-> <<>>, m |-> <<>>], [t |-> "str", s |-> <<"1",".","5">>, a |-> <<>>, m |-> <<>>]>>, m |-> <<>>], [t |-> "arr", s |-> <<>>, a |-> <<[t |-> "str", s |-> <<"0">>, a |-> <<>>, m |-> <<>>], [t |-> "str", s |-> <<"0">>, a |-> <<>>, m |-> <<>>]>>, m |-> <<>>], [t |-> "arr", s |-> <<>>, a |-> <<[t |-> "str", s |-> <<"5","1">>, a |-> <<>>, m |-> <<>>], [t |-> "str", s |-> <<"2">>, a |-> <<>>, m |-> <<>>]>>, m |-> <<>>]>>, m |-> <<>>]>>,
         <<"asks", [t |-> "arr", s |-> <<>>, a |-> <<[t |-> "arr", s |-> <<>>, a |-> <<[t |-> "num", s |-> <<"5","3">>, a |-> <<>>, m |-> <<>>], [t |-> "num", s |-> <<"1">>, a |-> <<>>, m |-> <<>>]>>, m |-> <<>>], [t |-> "arr", s |-> <<>>, a |-> <<[t |-> "num", s |-> <<"5","2">>, a |-> <<>>, m |-> <<>>], [t |-> "num", s |-> <<"1",".","2">>, a |-> <<>>, m |-> <<>>]>>, m |-> <<>>]>>, m |-> <<>>]>>,
         <<"time", [t |-> "str", s |-> <<"1","6","0","9","4","5","9","2","0","0">>, a |-> <<>>, m |-> <<>>]>>,
         <<"sequence", [t |-> "num", s |-> <<"7">>, a |-> <<>>, m |-> <<>>]>>>>]],
      \* {"bids":[[0.0000001,1]],"asks":[["0.0000002","1"]]}
      [kind |-> "json",
       json |-> [t |-> "obj", s |-> <<>>, a |-> <<>>, m |-> <<<<"bids", [t |-> "arr", s |-> <<>>, a |-> <<[t |-> "arr", s |-> <<>>, a |-> <<[t |-> "num", s |-> <<"0",".","0","0","0","0","0","0","1">>, a |-> <<>>, m |-> <<>>], [t |-> "num", s |-> <<"1">>, a |-> <<>>, m |-> <<>>]>>, m |-> <<>>]>>, m |-> <<>>]>>,
         <<"asks", [t |-> "arr", s |-> <<>>, a |-> <<[t |-> "arr", s |-> <<>>, a |-> <<[t |-> "str", s |-> <<"0",".","0","0","0","0","0","0","2">>, a |-> <<>>, m |-> <<>>], [t |-> "str", s |-> <<"1">>, a |-> <<>>, m |-> <<>>]>>, m |-> <<>>]>>, m |-> <<>>]>>>>]],
      \* {"bids":[["50",null]],"asks":[]}
      [kind |-> "json",
       json |-> [t |-> "obj", s |-> <<>>, a |-> <<>>, m |-> <<<<"bids", [t |-> "arr", s |-> <<>>, a |-> <<[t |-> "arr", s |-> <<>>, a |-> <<[t |-> "str", s |-> <<"5","0">>, a |-> <<>>, m |-> <<>>], [t |-> "null", s |-> <<>>, a |-> <<>>, m |-> <<>>]>>, m |-> <<>>]>>, m |-> <<>>]>>,
         <<"asks", [t |-> "arr", s |-> <<>>, a |-> <<>>, m |-> <<>>]>>>>]],
      \* {"trade_id":"t1","product_id":"BTC-USD","price":"50","size":"1.5","time":"2021-01-01T00:00:00Z","side":"BUY"}
      [kind |-> "json",
       json |-> [t |-> "obj", s |-> <<>>, a |-> <<>>, m |-> <<<<"trade_id", [t |-> "str", s |-> <<"t","1">>, a |-> <<>>, m |-> <<>>]>>,
         <<"product_id", [t |-> "str", s |-> <<"B","T","C","-","U","S","D">>, a |-> <<>>, m |-> <<>>]>>,
         <<"price", [t |-> "str", s |-> <<"5","0">>, a |-> <<>>, m |-> <<>>]>>,
         <<"size", [t |-> "str", s |-> <<"1",".","5">>, a |-> <<>>, m |-> <<>>]>>,
         <<"time", [t |-> "str", s |-> <<"2","0","2","1","-","0","1","-","0","1","T","0","0",":","0","0",":","0","0","Z">>, a |-> <<>>, m |-> <<>>]>>,
         <<"side", [t |-> "str", s |-> <<"B","U","Y">>, a |-> <<>>, m |-> <<>>]>>>>]],
      \* {"trade_id":"t1","side":"sell"}
      [kind |-> "json",
       json |-> [t |-> "obj", s |-> <<>>, a |-> <<>>, m |-> <<<<"trade_id", [t |-> "str", s |-> <<"t","1">>, a |-> <<>>, m |-> <<>>]>>,
         <<"side", [t |-> "str", s |-> <<"s","e","l","l">>, a |-> <<>>, m |-> <<>>]>>>>]],
      \* {"trades":[{"trade_id":"t1","price":"50","size":"1","time":"1609459200000","side":"SELL"},{"trade_id":"t2"}]}
      [kind |-> "json",
       json |-> [t |-> "obj", s |-> <<>>, a |-> <<>>, m |-> <<<<"trades", [t |-> "arr", s |-> <<>>, a |-> <<[t |-> "obj", s |-> <<>>, a |-> <<>>, m |-> <<<<"trade_id", [t |-> "str", s |-> <<"t","1">>, a |-> <<>>, m |-> <<>>]>>,
         <<"price", [t |-> "str", s |-> <<"5","0">>, a |-> <<>>, m |-> <<>>]>>,
         <<"size", [t |-> "str", s |-> <<"1">>, a |-> <<>>, m |-> <<>>]>>,
         <<"time", [t |-> "str", s |-> <<"1","6","0","9","4","5","9","2","0","0","0","0","0">>, a |-> <<>>, m |-> <<>>]>>,
         <<"side", [t |-> "str", s |-> <<"S","E","L","L">>, a |-> <<>>, m |-> <<>>]>>>>], [t |-> "obj", s |-> <<>>, a |-> <<>>, m |-> <<<<"trade_id", [t |-> "str", s |-> <<"t","2">>, a |-> <<>>, m |-> <<>>]>>>>]>>, m |-> <<>>]>>>>]],
      \* {"trade_id":"t1","price":"50","time":"yesterday"}
      [kind |-> "json",
       json |-> [t |-> "obj", s |-> <<>>, a |-> <<>>, m |-> <<<<"trade_id", [t |-> "str", s |-> <<"t","1">>, a |-> <<>>, m |-> <<>>]>>,
         <<"price", [t |-> "str", s |-> <<"5","0">>, a |-> <<>>, m |-> <<>>]>>,
         <<"time", [t |-> "str", s |-> <<"y","e","s","t","e","r","d","a","y">>, a |-> <<>>, m |-> <<>>]>>>>]],
      \* {"trades":"none"}
      [kind |-> "json",
       json |-> [t |-> "obj", s |-> <<>>, a |-> <<>>, m |-> <<<<"trades", [t |-> "str", s |-> <<"n","o","n","e">>, a |-> <<>>, m |-> <<>>]>>>>]],
      \* {"id":"o1","product_id":"BTC-USD","side":"BUY","type":"LIMIT","base_quantity":"1.5","limit_price":"50","status":"OPEN","time_in_force":"GOOD_UNTIL_CANCELLED","created_at":"2021-01-01T00:00:00Z","filled_quantity":"0","post_only":true}
      [kind |-> "json",
       json |-> [t |-> "obj", s |-> <<>>, a |-> <<>>, m |-> <<<<"id", [t |-> "str", s |-> <<"o","1">>, a |-> <<>>, m |-> <<>>]>>,
         <<"product_id", [t |-> "str", s |-> <<"B","T","C","-","U","S","D">>, a |-> <<>>, m |-> <<>>]>>,
         <<"side", [t |-> "str", s |-> <<"B","U","Y">>, a |-> <<>>, m |-> <<>>]>>,
         <<"type", [t |-> "str", s |-> <<"L","I","M","I","T">>, a |-> <<>>, m |-> <<>>]>>,
         <<"base_quantity", [t |-> "str", s |-> <<"1",".","5">>, a |-> <<>>, m |-> <<>>]>>,
         <<"limit_price", [t |-> "str", s |-> <<"5","0">>, a |-> <<>>, m |-> <<>>]>>,
         <<"status", [t |-> "str", s |-> <<"O","P","E","N">>, a |-> <<>>, m |-> <<>>]>>,
         <<"time_in_force", [t |-> "str", s |-> <<"G","O","O","D","_","U","N","T","I","L","_","C","A","N","C","E","L","L","E","D">>, a |-> <<>>, m |-> <<>>]>>,
         <<"created_at", [t |-> "str", s |-> <<"2","0","2","1","-","0","1","-","0","1","T","0","0",":","0","0",":","0","0","Z">>, a |-> <<>>, m |-> <<>>]>>,
         <<"filled_quantity", [t |-> "str", s |-> <<"0">>, a |-> <<>>, m |-> <<>>]>>,
         <<"post_only", [t |-> "bool", s |-> <<"true">>, a |-> <<>>, m |-> <<>>]>>>>]],
      \* {"id":"o1","side":"SELL","type":"MARKET","base_quantity":"1.5","status":"open","time_in_force":"UNKNOWN","created_at":"1609459200"}
      [kind |-> "json",
       json |-> [t |-> "obj", s |-> <<>>, a |-> <<>>, m |-> <<<<"id", [t |-> "str", s |-> <<"o","1">>, a |-> <<>>, m |-> <<>>]>>,
         <<"side", [t |-> "str", s |-> <<"S","E","L","L">>, a |-> <<>>, m |-> <<>>]>>,
         <<"type", [t |-> "str", s |-> <<"M","A","R","K","E","T">>, a |-> <<>>, m |-> <<>>]>>,
         <<"base_quantity", [t |-> "str", s |-> <<"1",".","5">>, a |-> <<>>, m |-> <<>>]>>,
         <<"status", [t |-> "str", s |-> <<"o","p","e","n">>, a |-> <<>>, m |-> <<>>]>>,
         <<"time_in_force", [t |-> "str", s |-> <<"U","N","K","N","O","W","N">>, a |-> <<>>, m |-> <<>>]>>,
         <<"created_at", [t |-> "str", s |-> <<"1","6","0","9","4","5","9","2","0","0">>, a |-> <<>>, m |-> <<>>]>>>>]],
      \* {"id":"o1","limit_price":50}
      [kind |-> "json",
       json |-> [t |-> "obj", s |-> <<>>, a |-> <<>>, m |-> <<<<"id", [t |-> "str", s |-> <<"o","1">>, a |-> <<>>, m |-> <<>>]>>,
         <<"limit_price", [t |-> "num", s |-> <<"5","0">>, a |-> <<>>, m |-> <<>>]>>>>]],
      \* {"fill_id":"f1","order_id":"o1","symbol":"BTC-USD","match_id":"m1","fill_price":50,"fill_qty":1.5,"fee":0.1,"side":"BUY","order_status":"FILLED","event_time":"2021-01-01T00:00:01Z","client_order_id":"c1"}
      [kind |-> "json",
       json |-> [t |-> "obj", s |-> <<>>, a |-> <<>>, m |-> <<<<"fill_id", [t |-> "str", s |-> <<"f","1">>, a |-> <<>>, m |-> <<>>]>>,
         <<"order_id", [t |-> "str", s |-> <<"o","1">>, a |-> <<>>, m |-> <<>>]>>,
         <<"symbol", [t |-> "str", s |-> <<"B","T","C","-","U","S","D">>, a |-> <<>>, m |-> <<>>]>>,
         <<"match_id", [t |-> "str", s |-> <<"m","1">>, a |-> <<>>, m |-> <<>>]>>,
         <<"fill_price", [t |-> "num", s |-> <<"5","0">>, a |-> <<>>, m |-> <<>>]>>,
         <<"fill_qty", [t |-> "num", s |-> <<"1",".","5">>, a |-> <<>>, m |-> <<>>]>>,
         <<"fee", [t |-> "num", s |-> <<"0",".","1">>, a |-> <<>>, m |-> <<>>]>>,
         <<"side", [t |-> "str", s |-> <<"B","U","Y">>, a |-> <<>>, m |-> <<>>]>>,
         <<"order_status", [t |-> "str", s |-> <<"F","I","L","L","E","D">>, a |-> <<>>, m |-> <<>>]>>,
         <<"event_time", [t |-> "str", s |-> <<"2","0","2","1","-","0","1","-","0","1","T","0","0",":","0","0",":","0","1","Z">>, a |-> <<>>, m |-> <<>>]>>,
         <<"client_order_id", [t |-> "str", s |-> <<"c","1">>, a |-> <<>>, m |-> <<>>]>>>>]],
      \* {"fill_id":"f1","event_time":"yesterday"}
      [kind |-> "json",
       json |-> [t |-> "obj", s |-> <<>>, a |-> <<>>, m |-> <<<<"fill_id", [t |-> "str", s |-> <<"f","1">>, a |-> <<>>, m |-> <<>>]>>,
         <<"event_time", [t |-> "str", s |-> <<"y","e","s","t","e","r","d","a","y">>, a |-> <<>>, m |-> <<>>]>>>>]],
      \* {"entry_id":"e1","trade_id":"t1","order_id":"o1","trade_time":"2021-01-01T00:00:00.5Z","trade_type":"FILL","price":"50","size":"1.5","commission":"0.1","product_id":"BTC-USD","liquidity_indicator":"MAKER","side":"BUY"}
      [kind |-> "json",
       json |-> [t |-> "obj", s |-> <<>>, a |-> <<>>, m |-> <<<<"entry_id", [t |-> "str", s |-> <<"e","1">>, a |-> <<>>, m |-> <<>>]>>,
         <<"trade_id", [t |-> "str", s |-> <<"t","1">>, a |-> <<>>, m |-> <<>>]>>,
         <<"order_id", [t |-> "str", s |-> <<"o","1">>, a |-> <<>>, m |-> <<>>]>>,
         <<"trade_time", [t |-> "str", s |-> <<"2","0","2","1","-","0","1","-","0","1","T","0","0",":","0","0",":","0","0",".","5","Z">>, a |-> <<>>, m |-> <<>>]>>,
         <<"trade_type", [t |-> "str", s |-> <<"F","I","L","L">>, a |-> <<>>, m |-> <<>>]>>,
         <<"price", [t |-> "str", s |-> <<"5","0">>, a |-> <<>>, m |-> <<>>]>>,
         <<"size", [t |-> "str", s |-> <<"1",".","5">>, a |-> <<>>, m |-> <<>>]>>,
         <<"commission", [t |-> "str", s |-> <<"0",".","1">>, a |-> <<>>, m |-> <<>>]>>,
         <<"product_id", [t |-> "str", s |-> <<"B","T","C","-","U","S","D">>, a |-> <<>>, m |-> <<>>]>>,
         <<"liquidity_indicator", [t |-> "str", s |-> <<"M","A","K","E","R">>, a |-> <<>>, m |-> <<>>]>>,
         <<"side", [t |-> "str", s |-> <<"B","U","Y">>, a |-> <<>>, m |-> <<>>]>>>>]],
      \* {"symbol":"BTC","amount":"1.5","holds":"0.5"}
      [kind |-> "json",
       json |-> [t |-> "obj", s |-> <<>>, a |-> <<>>, m |-> <<<<"symbol", [t |-> "str", s |-> <<"B","T","C">>, a |-> <<>>, m |-> <<>>]>>,
         <<"amount", [t |-> "str", s |-> <<"1",".","5">>, a |-> <<>>, m |-> <<>>]>>,
         <<"holds", [t |-> "str", s |-> <<"0",".","5">>, a |-> <<>>, m |-> <<>>]>>>>]],
      \* {"symbol":"BTC"}
      [kind |-> "json",
       json |-> [t |-> "obj", s |-> <<>>, a |-> <<>>, m |-> <<<<"symbol", [t |-> "str", s |-> <<"B","T","C">>, a |-> <<>>, m |-> <<>>]>>>>]],
      \* null
      [kind |-> "json",
       json |-> [t |-> "null", s |-> <<>>, a |-> <<>>, m |-> <<>>]],
      \* {}
      [kind |-> "json",
       json |-> [t |-> "obj", s |-> <<>>, a |-> <<>>, m |-> <<>>]],
      \* []
      [kind |-> "json",
       json |-> [t |-> "arr", s |-> <<>>, a |-> <<>>, m |-> <<>>]],
      \* "text"
      [kind |-> "json",
       json |-> [t |-> "str", s |-> <<"t","e","x","t">>, a |-> <<>>, m |-> <<>>]],
      \* {"unrelated":1}
      [kind |-> "json",
       json |-> [t |-> "obj", s |-> <<>>, a |-> <<>>, m |-> <<<<"unrelated", [t |-> "num", s |-> <<"1">>, a |-> <<>>, m |-> <<>>]>>>>]] }

parseTradeSide(side) ==
    Switch({ <<{<<"B","U","Y">>}, "TRADE_SIDE_BUY">>,
             <<{<<"S","E","L","L">>}, "TRADE_SIDE_SELL">> },
           side, "TRADE_SIDE_UNSPECIFIED")

normalizeSingleTrade(cbTrade) ==
    LET converted(timestamp, price, quantity) ==
            IF timestamp.err THEN Failed("invalid trade time")
            ELSE Returned([TradeId |-> Ptr(cbTrade.TradeID),
                           VenueId |-> Ptr("coinbase"),
                           VenueSymbol |-> Ptr(cbTrade.ProductID),
                           Timestamp |-> timestamp.ts,
                           Price |-> Ptr(price),
                           Quantity |-> Ptr(quantity),
                           Side |-> Ptr(parseTradeSide(cbTrade.Side)),
                           Value |-> Ptr(<<"product", price, quantity>>)])
    IN  converted(ParseTimestamp(cbTrade.Time), ParseDecimalOrZero(cbTrade.Price),
                  ParseDecimalOrZero(cbTrade.Size))

\* the trades list is tried first, then the single trade
CoinbaseNormalizeTrade(raw) ==
    LET single(trade) ==
            IF trade.err THEN Failed("failed to parse coinbase trade")
            ELSE normalizeSingleTrade(trade.val)
        list(tradesResp) ==
            IF ~tradesResp.err /\ Len(tradesResp.val.Trades) > 0
            THEN normalizeSingleTrade(tradesResp.val.Trades[1])
            ELSE single(Unmarshal(raw, "CoinbaseTrade"))
    IN  IF raw.kind = "empty" THEN Failed("empty trade response")
        ELSE list(Unmarshal(raw, "CoinbaseTradesResponse"))

CoinbaseNormalizeExecutionReport(raw) ==
    LET cbFill == Unmarshal(raw, "CoinbaseFill")
        converted(fill, timestamp, price, quantity) ==
            IF timestamp.err THEN Failed("invalid trade_time")
            ELSE Returned([ExecutionId |-> Ptr(fill.EntryID),
                           OrderId |-> Ptr(fill.OrderID),
                           VenueOrderId |-> Ptr(fill.OrderID),
                           VenueSymbol |-> Ptr(fill.ProductID),
                           ExecutionType |->
                               Ptr(IF fill.TradeType = <<"F","I","L","L">>
                                   THEN "EXECUTION_TYPE_TRADE"
                                   ELSE "EXECUTION_TYPE_UNSPECIFIED"),
                           OrderStatus |-> Ptr(<<"F","I","L","L","E","D">>),
                           Side |-> Ptr(fill.Side),
                           Timestamp |-> timestamp.ts,
                           Price |-> Ptr(price),
                           Quantity |-> Ptr(quantity),
                           Fee |-> Ptr(ParseDecimalOrZero(fill.Commission)),
                           TradeId |-> Ptr(fill.TradeID),
                           IsMaker |-> Ptr(fill.LiquidityIndicator = <<"M","A","K","E","R">>),
                           Liquidity |-> Ptr(fill.LiquidityIndicator),
                           VenueExecutionId |-> Ptr(fill.EntryID),
                           ClientOrderId |-> Nil,
                           Value |-> Ptr(<<"product", price, quantity>>)])
        decoded(fill) ==
            converted(fill, ParseTimestamp(fill.TradeTime),
                      ParseDecimalOrZero(fill.Price), ParseDecimalOrZero(fill.Size))
    IN  CASE raw.kind = "empty" -> Failed("empty execution report response")
          [] raw.kind # "empty" /\ cbFill.err -> Failed("failed to parse coinbase fill")
          [] OTHER -> decoded(cbFill.val)

\* every decimal starts at 0 and is set whether the venue sent it or not
PrimeNormalizeOrder(raw) ==
    LET primeOrder == Unmarshal(raw, "PrimeOrder")
        decimal(s) == IF s # <<>> THEN ParseDecimalOrZero(s) ELSE 0
        converted(order, createdAt) ==
            IF createdAt.err THEN Failed("invalid created_at")
            ELSE Returned([OrderId |-> Ptr(order.ID),
                           VenueOrderId |-> Ptr(order.ID),
                           ClientOrderId |-> Ptr(order.ClientOrderID),
                           VenueSymbol |-> Ptr(order.ProductID),
                           Side |-> Ptr(PrimeMapOrderSide(order.Side)),
                           OrderType |-> Ptr(PrimeMapOrderType(order.Type)),
                           Status |-> Ptr(PrimeMapOrderStatus(order.Status)),
                           TimeInForce |-> Ptr(PrimeMapTimeInForce(order.TimeInForce)),
                           Quantity |-> Ptr(decimal(order.BaseQuantity)),
                           Price |-> Ptr(decimal(order.LimitPrice)),
                           StopPrice |-> Ptr(decimal(order.StopPrice)),
                           FilledQuantity |-> Ptr(decimal(order.FilledQuantity)),
                           AverageFillPrice |-> Ptr(decimal(order.AverageFilledPrice)),
                           CreatedAt |-> createdAt.ts,
                           TotalFees |-> Ptr(decimal(order.Commission)),
                           PostOnly |-> Ptr(order.PostOnly),
                           UpdatedAt |-> createdAt.ts])
        decoded(order) == converted(order, ParseTimestamp(order.CreatedAt))
    IN  CASE raw.kind = "empty" -> Failed("empty order response")
          [] raw.kind # "empty" /\ primeOrder.err -> Failed("failed to parse prime order")
          [] OTHER -> decoded(primeOrder.val)

PrimeNormalizeExecutionReport(raw) ==
    LET primeFill == Unmarshal(raw, "PrimeFill")
        converted(fill, timestamp) ==
            IF timestamp.err THEN Failed("invalid event_time")
            ELSE Returned([ExecutionId |-> Ptr(fill.FillID),
                           OrderId |-> Ptr(fill.OrderID),
                           VenueOrderId |-> Ptr(fill.OrderID),
                           VenueSymbol |-> Ptr(fill.Symbol),
                           ExecutionType |-> Ptr("EXECUTION_TYPE_FILL"),
                           OrderStatus |-> Ptr(fill.OrderStatus),
                           Side |-> Ptr(fill.Side),
                           Timestamp |-> timestamp.ts,
                           Price |-> Ptr(fill.FillPrice),
                           Quantity |-> Ptr(fill.FillQty),
                           Fee |-> Ptr(fill.Fee),
                           TradeId |-> Ptr(fill.MatchID),
                           IsMaker |-> Ptr(FALSE),
                           Liquidity |-> Nil,
                           VenueExecutionId |-> Ptr(fill.FillID),
                           ClientOrderId |-> IF fill.ClientOrderID # <<>>
                                             THEN Ptr(fill.ClientOrderID) ELSE Nil,
                           Value |-> Ptr(<<"product", fill.FillPrice, fill.FillQty>>)])
        decoded(fill) == converted(fill, ParseTimestamp(fill.EventTime))
    IN  CASE raw.kind = "empty" -> Failed("empty execution report response")
          [] raw.kind # "empty" /\ primeFill.err -> Failed("failed to parse prime fill")
          [] OTHER -> decoded(primeFill.val)

PrimeNormalizeBalance(raw) ==
    LET primeBalance == Unmarshal(raw, "PrimeBalance")
        converted(balance, total, holds) ==
            Returned([AccountId |-> Nil,
                      AssetId |-> Ptr(balance.Symbol),
                      Total |-> Ptr(total),
                      Available |-> Ptr(total - holds),
                      Locked |-> Ptr(holds)])
        decoded(balance) ==
            converted(balance, ParseDecimalOrZero(balance.Amount),
                      ParseDecimalOrZero(balance.Holds))
    IN  CASE raw.kind = "empty" -> Failed("empty balance response")
          [] raw.kind # "empty" /\ primeBalance.err ->
               Failed("failed to parse prime balance")
          [] OTHER -> decoded(primeBalance.val)

\* the normalization operations: the venue, the response kind, the function
Operations ==
    { <<"coinbase", "OrderBook">>, <<"coinbase", "Trade">>,
      <<"coinbase", "ExecutionReport">>,
      <<"prime", "Order">>, <<"prime", "OrderBook">>,
      <<"prime", "ExecutionReport">>, <<"prime", "Balance">> }

NormalizeResult(op, raw, clockMs) ==
    CASE op = <<"coinbase", "OrderBook">> -> CoinbaseNormalizeOrderBook(raw, clockMs)
      [] op = <<"coinbase", "Trade">> -> CoinbaseNormalizeTrade(raw)
      [] op = <<"coinbase", "ExecutionReport">> -> CoinbaseNormalizeExecutionReport(raw)
      [] op = <<"prime", "Order">> -> PrimeNormalizeOrder(raw)
      [] op = <<"prime", "OrderBook">> -> PrimeNormalizeOrderBook(raw, clockMs)
      [] op = <<"prime", "ExecutionReport">> -> PrimeNormalizeExecutionReport(raw)
      [] op = <<"prime", "Balance">> -> PrimeNormalizeBalance(raw)

MaxCalls == 2

\* one call of a normalization operation on the raw bytes; the calls of a
\* run are calls of one operation
Normalize(op) ==
    /\ norm.op \in {<<"none", "none">>, op}
    /\ Len(norm.results) < MaxCalls
    /\ norm' = [norm EXCEPT !.op = op,
                            !.results = Append(@, [at |-> nowMs,
                                                   out |-> NormalizeResult(op, norm.raw, nowMs)])]
    /\ UNCHANGED <<enumCall, tsCall, errVars, mwVars, signVars, mockVars>>

\* no normalization call made
NoNorm == [op |-> <<"none", "none">>]

NormIdle == enumCall = NoEnumCall /\ tsCall = NoTimestampCall /\ norm = NoNorm

(***************************************************************************)
(* The mock client.  The Client object is its mutex, its handler fields    *)
(* and its call histories; a goroutine runs a program of calls, one after  *)
(* the other, and holds a stack of the calls it is inside (a handler may   *)
(* call the client again).  A handler is kept by what it does:             *)
(*   "nil"            no handler configured                                *)
(*   "returns"        returns its own result                               *)
(*   "callsCallCount" calls PlaceOrderCallCount of the same client         *)
(*   "callsReset"     calls Reset of the same client                       *)
(*   "callsHealth"    calls Health of the same client                      *)
(* The argument of a call names the goroutine, the position of the call in *)
(* its program and whether a handler made it, so that every invocation is  *)
(* told apart.                                                             *)
(***************************************************************************)
MockGoroutines == 2
Goroutines == 1..MockGoroutines

Methods == {"PlaceOrder", "CancelOrder", "GetOrder", "GetOrders", "GetBalance",
            "GetOrderBook", "SubscribeOrderBook", "SubscribeTrades", "Health"}

\* sync.RWMutex: the goroutine holding the write lock (0: none) and the
\* goroutines holding a read lock
Unlocked == [writer |-> 0, readers |-> {}]

\* &mock.Client{}
NewClient ==
    [mu |-> Unlocked,
     On |-> [m \in Methods |-> "nil"],
     calls |-> [m \in Methods |-> <<>>]]

\* a client with handlers set on its fields before the goroutines start
ClientWith(handlers) ==
    [NewClient EXCEPT !.On = [m \in Methods |->
                                 IF m \in DOMAIN handlers THEN handlers[m] ELSE "nil"]]

\* the calls a program is made of
CallOf(m) == [op |-> "call", m |-> m, n |-> 0]
CallCountOf(m) == [op |-> "count", m |-> m, n |-> 0]
CallArgsOf(m, n) == [op |-> "args", m |-> m, n |-> n]
ResetCall == [op |-> "Reset", m |-> "none", n |-> 0]

Arg(t, i, nested) == [t |-> t, i |-> i, nested |-> nested]
NoArg == Arg(0, 0, FALSE)

\* what a call returned: the kind of result, a number, a text, an argument
Out(kind, n, s, arg) == [kind |-> kind, n |-> n, s |-> s, arg |-> arg]

Frame(call, arg) ==
    [op |-> call.op, m |-> call.m, n |-> call.n, arg |-> arg,
     pc |-> "lock", history |-> <<>>, handler |-> "nil"]

Goroutine(program) == [program |-> program, next |-> 1, stack |-> <<>>, done |-> <<>>]

Top(t) == gor[t].stack[Len(gor[t].stack)]
Inside(t) == gor[t].stack # <<>>
At(t, op, pc) == Inside(t) /\ Top(t).op = op /\ Top(t).pc = pc

\* the call on top of the stack returns (or panics): it is taken off and
\* noted with what it returned
Returns(g, out) ==
    [g EXCEPT !.stack = SubSeq(@, 1, Len(@) - 1),
              !.done = Append(@, [op |-> g.stack[Len(g.stack)].op,
                                  m |-> g.stack[Len(g.stack)].m,
                                  arg |-> g.stack[Len(g.stack)].arg,
                                  depth |-> Len(g.stack),
                                  out |-> out])]

Moves(g, pc) == [g EXCEPT !.stack[Len(g.stack)].pc = pc]

\* the goroutine calls the next method of its program
Mock_Invoke(t) ==
    /\ ~Inside(t)
    /\ gor[t].next <= Len(gor[t].program)
    /\ gor' = [gor EXCEPT ![t].stack = <<Frame(gor[t].program[gor[t].next],
                                                Arg(t, gor[t].next, FALSE))>>,
                          ![t].next = @ + 1]
    /\ UNCHANGED <<mock, errVars, mwVars, signVars, normVars>>

\* a lock that is given at once
Mock_Lock_NoWait(t) ==
    /\ Inside(t) /\ Top(t).pc = "lock"
    /\ IF Top(t).op \in {"call", "Reset"}
       THEN mock' = [mock EXCEPT !.mu.writer = t]
       ELSE mock' = [mock EXCEPT !.mu.readers = @ \cup {t}]
    /\ gor' = [gor EXCEPT ![t] = Moves(@, "locked")]
    /\ UNCHANGED <<errVars, mwVars, signVars, normVars>>

\* c.mu.Lock() of an operation and of Reset, c.mu.RLock() of a query: a
\* writer waits for the lock to be free, a reader for no writer
Mock_Lock(t) ==
    /\ Inside(t) /\ Top(t).pc = "lock"
    /\ IF Top(t).op \in {"call", "Reset"}
       THEN /\ mock.mu = Unlocked
            /\ mock' = [mock EXCEPT !.mu.writer = t]
       ELSE /\ mock.mu.writer = 0
            /\ mock' = [mock EXCEPT !.mu.readers = @ \cup {t}]
    /\ gor' = [gor EXCEPT ![t] = Moves(@, "locked")]
    /\ UNCHANGED <<errVars, mwVars, signVars, normVars>>

\* append, first half: the history as the operation finds it
Method_Append(t) ==
    /\ At(t, "call", "locked")
    /\ gor' = [gor EXCEPT ![t].stack[Len(gor[t].stack)].history = mock.calls[Top(t).m],
                          ![t].stack[Len(gor[t].stack)].pc = "appending"]
    /\ UNCHANGED <<mock, errVars, mwVars, signVars, normVars>>

\* the lock not released
Method_Record_LockKept(t) ==
    /\ At(t, "call", "appending")
    /\ mock' = [mock EXCEPT !.calls[Top(t).m] = Append(Top(t).history, Top(t).arg)]
    /\ gor' = [gor EXCEPT ![t].stack[Len(gor[t].stack)].handler = mock.On[Top(t).m],
                          ![t].stack[Len(gor[t].stack)].history = <<>>,
                          ![t].stack[Len(gor[t].stack)].pc = "unlocked"]
    /\ UNCHANGED <<errVars, mwVars, signVars, normVars>>

\* append, second half: the history with the call after it is stored; the
\* handler field is read; the lock is released before the handler is
\* looked at
Method_Record(t) ==
    /\ At(t, "call", "appending")
    /\ mock' = [mock EXCEPT !.calls[Top(t).m] = Append(Top(t).history, Top(t).arg),
                            !.mu = Unlocked]
    /\ gor' = [gor EXCEPT ![t].stack[Len(gor[t].stack)].handler = mock.On[Top(t).m],
                          ![t].stack[Len(gor[t].stack)].history = <<>>,
                          ![t].stack[Len(gor[t].stack)].pc = "unlocked"]
    /\ UNCHANGED <<errVars, mwVars, signVars, normVars>>

\* what the handler calls on the client, if anything
HandlerCalls(handler) ==
    CASE handler = "callsCallCount" -> <<CallCountOf("PlaceOrder")>>
      [] handler = "callsReset" -> <<ResetCall>>
      [] handler = "callsHealth" -> <<CallOf("Health")>>
      [] OTHER -> <<>>

\* handler != nil: the handler is called; one that calls the client enters
\* that call, another returns
Method_Handler(t) ==
    /\ At(t, "call", "unlocked")
    /\ Top(t).handler # "nil"
    /\ gor' = [gor EXCEPT ![t] =
                  IF HandlerCalls(Top(t).handler) = <<>>
                  THEN Returns(@, Out("handler", 0, Top(t).handler, NoArg))
                  ELSE [Moves(@, "handler") EXCEPT
                           !.stack = Append(@, Frame(HandlerCalls(Top(t).handler)[1],
                                                     Arg(t, gor[t].next - 1, TRUE)))]]
    /\ UNCHANGED <<mock, errVars, mwVars, signVars, normVars>>

\* the call the handler made has returned, the handler returns
Method_HandlerReturn(t) ==
    /\ At(t, "call", "handler")
    /\ gor' = [gor EXCEPT ![t] = Returns(@, Out("handler", 0, Top(t).handler, NoArg))]
    /\ UNCHANGED <<mock, errVars, mwVars, signVars, normVars>>

\* the default results; PlaceOrder prints len(c.placeOrderCalls), read here,
\* after the lock was released
DefaultResult(m) ==
    IF m = "PlaceOrder"
    THEN Out("default", Len(mock.calls["PlaceOrder"]), "mock-order-", NoArg)
    ELSE Out("default", 0, m, NoArg)

\* handler == nil: the default behaviour
Method_Default(t) ==
    /\ At(t, "call", "unlocked")
    /\ Top(t).handler = "nil"
    /\ gor' = [gor EXCEPT ![t] = Returns(@, DefaultResult(Top(t).m))]
    /\ UNCHANGED <<mock, errVars, mwVars, signVars, normVars>>

RUnlock(mu, t) == [mu EXCEPT !.readers = @ \ {t}]

\* the XCallCount methods: len of the history, the read lock released on
\* return
CallCount(t) ==
    /\ At(t, "count", "locked")
    /\ gor' = [gor EXCEPT ![t] = Returns(@, Out("count", Len(mock.calls[Top(t).m]), "", NoArg))]
    /\ mock' = [mock EXCEPT !.mu = RUnlock(@, t)]
    /\ UNCHANGED <<errVars, mwVars, signVars, normVars>>

\* the XCall(n) methods: the arguments of call n (from 0), a panic when n is
\* out of bounds; the deferred RUnlock runs in both cases, and a goroutine
\* that panicked runs no further
CallArgs(t) ==
    /\ At(t, "args", "locked")
    /\ LET history == mock.calls[Top(t).m]
           n == Top(t).n
       IN  gor' = [gor EXCEPT ![t] =
                      IF n < 0 \/ n >= Len(history)
                      THEN [Returns(@, Out("panic", n, "", NoArg)) EXCEPT
                               !.next = Len(gor[t].program) + 1, !.stack = <<>>]
                      ELSE Returns(@, Out("args", n, "", history[n + 1]))]
    /\ mock' = [mock EXCEPT !.mu = RUnlock(@, t)]
    /\ UNCHANGED <<errVars, mwVars, signVars, normVars>>

\* the histories cleared, the handlers left
Reset_HandlersKept(t) ==
    /\ At(t, "Reset", "locked")
    /\ mock' = [mock EXCEPT !.calls = NewClient.calls, !.mu = Unlocked]
    /\ gor' = [gor EXCEPT ![t] = Returns(@, Out("reset", 0, "", NoArg))]
    /\ UNCHANGED <<errVars, mwVars, signVars, normVars>>

\* Reset under the lock: every handler field and every history set to nil
Reset(t) ==
    /\ At(t, "Reset", "locked")
    /\ mock' = [mock EXCEPT !.On = NewClient.On, !.calls = NewClient.calls,
                            !.mu = Unlocked]
    /\ gor' = [gor EXCEPT ![t] = Returns(@, Out("reset", 0, "", NoArg))]
    /\ UNCHANGED <<errVars, mwVars, signVars, normVars>>

\* the programs the goroutines run, and the handlers set before they start:
\* goroutine 1 runs first, every other goroutine runs others
Scenario(handlers, first, others) ==
    [handlers |-> handlers, first |-> first, others |-> others]

MockIdle ==
    /\ mock = NewClient
    /\ gor = [t \in Goroutines |-> Goroutine(<<>>)]

Solo(m) ==
    Scenario([x \in {m} |-> "returns"],
             <<CallOf(m), CallCountOf(m), ResetCall, CallCountOf(m), CallOf(m),
               CallCountOf(m), CallArgsOf(m, 0)>>,
             <<>>)

MockScenarios ==
    LET P == "PlaceOrder"
    IN  { Scenario(<<>>, <<CallOf(P), CallOf(P)>>, <<CallOf(P), CallOf(P)>>),
          Scenario(<<>>, <<CallOf(P), CallCountOf(P), CallArgsOf(P, 0)>>,
                         <<CallOf(P), CallCountOf(P)>>),
          Scenario(<<>>, <<CallOf("CancelOrder"), CallOf("GetOrder"),
                           CallCountOf("CancelOrder")>>,
                         <<CallOf("GetOrders"), CallOf("GetBalance"),
                           CallOf("CancelOrder")>>),
          Scenario(<<>>, <<CallOf("GetOrderBook"), CallOf("SubscribeOrderBook")>>,
                         <<CallOf("SubscribeTrades"), CallOf("Health"),
                           CallArgsOf("Health", 0)>>),
          Scenario(<<>>, <<CallOf(P), CallArgsOf(P, 0), CallArgsOf(P, 1)>>,
                         <<ResetCall>>),
          Scenario([x \in {P} |-> "returns"],
                   <<CallOf(P), ResetCall, CallOf(P)>>, <<CallOf(P)>>),
          Scenario([x \in {P} |-> "callsCallCount"],
                   <<CallOf(P), CallOf(P)>>, <<CallOf(P)>>),
          Scenario([x \in {P} |-> "callsReset"],
                   <<CallOf(P), CallCountOf(P)>>, <<CallOf(P)>>),
          Scenario([x \in {P} |-> "callsHealth"],
                   <<CallOf(P), CallCountOf("Health")>>, <<CallOf(P)>>),
          Scenario([x \in {P, "Health"} |-> IF x = P THEN "callsHealth" ELSE "returns"],
                   <<CallOf(P)>>, <<CallOf("Health"), ResetCall>>) }
    \cup { Solo(m) : m \in Methods }

(***************************************************************************)
(* Specifications                                                          *)
(***************************************************************************)
InitErr == nerr \in ErrInputs /\ MWIdle /\ SignIdle /\ NormIdle /\ MockIdle

NextErr ==
    \/ CoinbaseNormalizeError
    \/ PrimeNormalizeError

SpecErr == InitErr /\ [][NextErr]_vars

InitMW == ErrIdle /\ MWStart /\ SignIdle /\ NormIdle /\ MockIdle

NextMW ==
    \/ RoundTrip_ReadAndSign
    \/ \E e \in MW_SignErrors : RoundTrip_SignerFailed(e)
    \/ \E result \in MW_SignResults : RoundTrip_ApplyAndForward(result)
    \/ \E outcome \in MW_TransportOutcomes : Transport_RoundTrip(outcome)

SpecMW == InitMW /\ [][NextMW]_vars

InitSign == ErrIdle /\ MWIdle /\ SignIdle /\ NormIdle /\ MockIdle

NextSign ==
    \/ \E config \in HMACConfigs : NewHMACSigner(config)
    \/ \E config \in JWTConfigs : NewJWTSigner(config)
    \/ \E config \in BearerConfigs : NewBearerSigner(config)
    \/ \E config \in MPCConfigs : NewMPCSigner(config)
    \/ Clock_Tick
    \/ \E r \in SignRequests \cup {MessageFormatRequest} : HMACSigner_Sign(r)
    \/ \E r \in SR_MethodAndPath : \E n \in NonceOutcomes : JWTSigner_Sign(r, n)
    \/ \E r \in SR_MethodAndPath : BearerSigner_Sign(r)
    \/ \E r \in SR_Get \cup {MessageFormatRequest} : MPCSigner_Sign(r)

SpecSign == InitSign /\ [][NextSign]_vars

InitConc ==
    /\ ErrIdle /\ MWIdle /\ NormIdle /\ MockIdle
    /\ signer \in ConstructedSigners /\ nowMs = 9500
    /\ prevCall = NoCall /\ lastCall = NoCall
    /\ calls = [c \in Callers |-> IdleCall]

NextConc ==
    \/ Clock_Tick
    \/ \E c \in Callers : \E r \in SR_MethodAndTimestamp : HMACSign_Prehash(c, r)
    \/ \E c \in Callers : HMACSign_Return(c)
    \/ \E c \in Callers : \E r \in SR_MethodAndTimestamp : JWTSign_URI(c, r)
    \/ \E c \in Callers : \E n \in NonceOutcomes : JWTSign_Return(c, n)
    \/ \E c \in Callers : \E r \in SR_MethodAndTimestamp : BearerSign_Call(c, r)
    \/ \E c \in Callers : \E r \in SR_MethodAndTimestamp : MPCSign_CallSignerFunc(c, r)
    \/ \E c \in Callers : \E externalOK \in BOOLEAN : MPCSign_Return(c, externalOK)
    \/ \E c \in Callers : Caller_Again(c)

SpecConc == InitConc /\ [][NextConc]_vars

\* one request through the middleware, or Sign calls on an MPC signer: the
\* two places where the core calls out (the Signer and the transport; the
\* external signing function)
InitCalls ==
    \/ InitMW
    \/ InitConc /\ signer.variant = "mpc"

NextCalls ==
    \/ NextMW
    \/ Clock_Tick
    \/ \E c \in Callers : \E r \in SR_MethodAndTimestamp : MPCSign_CallSignerFunc(c, r)
    \/ \E c \in Callers : \E externalOK \in BOOLEAN : MPCSign_Return(c, externalOK)
    \/ \E c \in Callers : Caller_Again(c)

SpecCalls == InitCalls /\ [][NextCalls]_vars

\* enum mappings: every mapping applied to every input string
InitEnum ==
    /\ ErrIdle /\ MWIdle /\ SignIdle /\ MockIdle
    /\ enumCall \in {[called |-> FALSE, s |-> s] : s \in EnumInputs}
    /\ tsCall = NoTimestampCall
    /\ norm = NoNorm

NextEnum == \E m \in EnumMappings : EnumMap(m)

SpecEnum == InitEnum /\ [][NextEnum]_vars

\* normalization: raw bytes, normalized by one operation up to MaxCalls
\* times while the clock moves
InitNorm ==
    /\ ErrIdle /\ MWIdle /\ SignIdle /\ MockIdle
    /\ enumCall = NoEnumCall
    /\ tsCall = NoTimestampCall
    /\ norm \in {[op |-> <<"none", "none">>, raw |-> raw, results |-> <<>>] :
                    raw \in RawInputs}

NextNorm ==
    \/ \E op \in Operations : Normalize(op)
    \/ Clock_Tick

SpecNorm == InitNorm /\ [][NextNorm]_vars

\* timestamps: ParseTimestamp applied to every input string
InitTime ==
    /\ ErrIdle /\ MWIdle /\ SignIdle /\ MockIdle
    /\ enumCall = NoEnumCall
    /\ tsCall \in {[called |-> FALSE, s |-> s] : s \in TimestampInputs}
    /\ norm = NoNorm

NextTime == ParseTimestamp_Call

SpecTime == InitTime /\ [][NextTime]_vars

\* the mock client: a scenario's handlers and programs, the goroutines
\* interleaved step by step
InitMock ==
    /\ ErrIdle /\ MWIdle /\ SignIdle /\ NormIdle
    /\ \E sc \in MockScenarios :
          /\ mock = ClientWith(sc.handlers)
          /\ gor = [t \in Goroutines |->
                       Goroutine(IF t = 1 THEN sc.first ELSE sc.others)]

GoroutineStep(t) ==
    \/ Mock_Invoke(t)
    \/ Mock_Lock(t)
    \/ Method_Append(t)
    \/ Method_Record(t)
    \/ Method_Handler(t)
    \/ Method_HandlerReturn(t)
    \/ Method_Default(t)
    \/ CallCount(t)
    \/ CallArgs(t)
    \/ Reset(t)

NextMock == \E t \in Goroutines : GoroutineStep(t)

SpecMock == InitMock /\ [][NextMock]_vars

\* the scheduler runs every goroutine that can run; a goroutine waiting for
\* the lock gets it once the lock stays free
SpecMockFair == SpecMock /\ \A t \in Goroutines : WF_vars(GoroutineStep(t))

ErrCalled == nerr.venue # "none"

(***************************************************************************)
(* Claims about error normalization                                        *)
(***************************************************************************)

\* C2: for every body, the empty body and the body that is not JSON
\* included, status 429 is classified RateLimit and status 401 or 403 is
\* classified Permanent, in both venues.
C2_AuthAndRateLimitForEveryBody ==
    ErrCalled =>
        /\ (nerr.status = StatusTooManyRequests => nerr.err.kind = "RateLimit")
        /\ (nerr.status \in {StatusUnauthorized, StatusForbidden}
               => nerr.err.kind = "Permanent")

\* s holds k as a substring when letter case is ignored
C8_HoldsIgnoringCase(s, k) ==
    \E i \in 1..(Len(s) + 1) : \E j \in (i - 1)..Len(s) :
        toLower(SubSeq(s, i, j)) = toLower(k)

\* the text of a parsed error body: the string members the venue decodes
C8_BodyText(venue, body) ==
    IF venue = "coinbase"
    THEN body.error \o Text.Space \o body.message \o Text.Space \o body.error_details
            \o Text.Space \o body.preview_failure_reason
    ELSE body.code \o Text.Space \o body.message

C8_VenueKeywords(venue) ==
    IF venue = "coinbase" THEN CoinbaseClientErrors ELSE PrimeClientErrorCodes

\* C8 as stated: for status 400 with a parsed body the result is Permanent
\* exactly when the body's text holds one of the venue's client-caused
\* keywords as a case-insensitive substring, and Temporary otherwise, in
\* both venues.
C8_KeywordSubstringBothVenues ==
    (ErrCalled /\ nerr.status = StatusBadRequest /\ UnmarshalOK(nerr.body)) =>
        LET hit == \E k \in C8_VenueKeywords(nerr.venue) :
                      C8_HoldsIgnoringCase(C8_BodyText(nerr.venue, nerr.body), k)
        IN /\ (nerr.err.kind = "Permanent") <=> hit
           /\ (nerr.err.kind = "Temporary") <=> ~hit

\* C8 amended: for status 400 with a parsed body, Coinbase returns Permanent
\* exactly when error + " " + message + " " + error_details holds one of its
\* keywords as a case-insensitive substring; Prime returns Permanent exactly
\* when the code member equals one of its client error codes, letter for
\* letter; each venue returns Temporary otherwise.
C8_ClientErrorPerVenue ==
    (ErrCalled /\ nerr.status = StatusBadRequest /\ UnmarshalOK(nerr.body)) =>
        LET b == nerr.body
            hit == IF nerr.venue = "coinbase"
                   THEN \E k \in CoinbaseClientErrors :
                           C8_HoldsIgnoringCase(
                              b.error \o Text.Space \o b.message \o Text.Space
                                 \o b.error_details, k)
                   ELSE \E c \in PrimeClientErrorCodes : c = b.code
        IN /\ (nerr.err.kind = "Permanent") <=> hit
           /\ (nerr.err.kind = "Temporary") <=> ~hit

\* C8 witness: a Coinbase 400 whose only keyword, "too small", spans the
\* error and message members was classified Permanent.
C8_Witness ==
    /\ ErrCalled /\ nerr.venue = "coinbase"
    /\ nerr.status = StatusBadRequest
    /\ nerr.body.kind = "object"
    /\ nerr.body.error = Text.too
    /\ nerr.body.message = Text.small
    /\ nerr.body.error_details = Text.empty
    /\ nerr.err.kind = "Permanent"

\* C9: in both venues every error classified RateLimit is recognised as
\* Temporary by the check that recognises Temporary errors.
C9_RateLimitIsTemporary ==
    (ErrCalled /\ nerr.err.kind = "RateLimit") => IsTemporary(nerr.err)

(***************************************************************************)
(* Claims about the signing middleware                                     *)
(***************************************************************************)
SignerFailed == signRes.returned /\ signRes.err # "nil"
Forwarded == transportCalls > 0

\* C1: when the Signer returns an error, the wrapped transport is never
\* invoked for that request and RoundTrip returns the Signer's error with no
\* response.
C1_SignerErrorNotForwarded ==
    SignerFailed =>
        /\ transportCalls = 0
        /\ sent = NotSent
        /\ mwpc = "returned"
        /\ ret = [resp |-> "nil", err |-> signRes.err]

\* C1 witness: the Signer was called, failed, and RoundTrip has returned.
C1_Witness ==
    /\ signerCalls = 1 /\ SignerFailed /\ mwpc = "returned"
    /\ ret.err = "signer failed"

\* C6: the request the wrapped transport receives has every SignResult
\* header and query parameter set to exactly the SignResult's value, in
\* place of whatever the name held, and every other header and query
\* parameter as the caller set it.
C6_SentEqualsOriginalOverridden ==
    Forwarded =>
        LET signedNames == {CanonicalHeaderKey(k) : k \in DOMAIN signRes.Headers}
            was == URLQuery(orig.RawQuery)
            now == URLQuery(sent.RawQuery)
        IN /\ \A k \in DOMAIN signRes.Headers :
                 /\ HeaderGet(sent.Header, k) = signRes.Headers[k]
                 /\ sent.Header[CanonicalHeaderKey(k)] = <<signRes.Headers[k]>>
           /\ DOMAIN sent.Header = DOMAIN orig.Header \cup signedNames
           /\ \A n \in DOMAIN orig.Header \ signedNames :
                 sent.Header[n] = orig.Header[n]
           /\ \A k \in DOMAIN signRes.QueryParams :
                 k \in DOMAIN now /\ now[k] = <<signRes.QueryParams[k]>>
           /\ DOMAIN now = DOMAIN was \cup DOMAIN signRes.QueryParams
           /\ \A n \in DOMAIN was \ DOMAIN signRes.QueryParams : now[n] = was[n]
           /\ sent.Method = orig.Method /\ sent.Path = orig.Path

\* C6 witness: a request that already had an X-Auth header with two values,
\* another header, a twice-given signature parameter and another parameter
\* was forwarded after the Signer returned X-Auth and signature.
C6_Witness ==
    /\ Forwarded
    /\ "X-Auth" \in DOMAIN orig.Header /\ Len(orig.Header["X-Auth"]) = 2
    /\ "Content-Type" \in DOMAIN orig.Header
    /\ DOMAIN signRes.Headers = {"X-Auth", "x-sig"}
    /\ Len(orig.RawQuery) = 3
    /\ DOMAIN signRes.QueryParams = {"signature"}
    /\ sent.Header["X-Auth"] = <<"new">>

\* C7: for a request with a body, the middleware reads the caller's body to
\* its end exactly once before signing; the Signer is given those bytes, and
\* the wrapped transport reads the same bytes.
C7_BodyBufferedAndRestored ==
    ~orig.Body.nil =>
        /\ (signerCalls > 0 =>
               /\ origReads = 1
               /\ origReader.pos = Len(origReader.data)
               /\ signReq.Body = Bytes(orig.Body.data))
        /\ (mwpc = "forwarded" =>
               /\ ~req.Body.nil
               /\ ReadAll(req.Body).bytes = orig.Body.data
               /\ ~ReadAll(req.Body).err)
        /\ ((mwpc = "returned" /\ Forwarded) =>
               /\ sentBody = Bytes(orig.Body.data)
               /\ sentBody = signReq.Body)

\* C7 witness: a two-byte body was signed, forwarded and read by the
\* transport.
C7_Witness ==
    /\ mwpc = "returned" /\ Forwarded
    /\ orig.Body.data = <<"b", "c">>
    /\ sentBody = Bytes(<<"b", "c">>)
    /\ signerCalls = 1


(***************************************************************************)
(* Claims about the signers                                                *)
(***************************************************************************)
\* the last two Sign calls were made on an HMAC signer and both succeeded
HMACPair ==
    /\ signer.variant = "hmac"
    /\ prevCall.called /\ lastCall.called
    /\ prevCall.out.ok /\ lastCall.out.ok

Signature(call) == call.out.Headers["CB-ACCESS-SIGN"]
SignedString(call) == Signature(call)[2][3]
SignedTimestamp(call) == call.out.Headers["CB-ACCESS-TIMESTAMP"]

\* what HMAC signs of a call: method, path, body text and the timestamp used
Used(call) ==
    [Method |-> call.req.Method, Path |-> call.req.Path,
     Timestamp |-> SignedTimestamp(call), Body |-> BodyString(call.req.Body)]

OneDiffers(a, b) ==
    Cardinality({f \in {"Method", "Path", "Timestamp", "Body"} : a[f] # b[f]}) = 1

\* C3 as stated: two HMAC Sign calls whose requests differ in exactly one of
\* method, path, timestamp and body sign different strings and return
\* different signatures.
C3_OneFieldChangesSignature ==
    (HMACPair /\ OneDiffers(prevCall.req, lastCall.req))
        => /\ SignedString(prevCall) # SignedString(lastCall)
           /\ Signature(prevCall) # Signature(lastCall)

\* C3 amended: two HMAC Sign calls that differ in exactly one of method, path,
\* body text and the timestamp actually signed (the request's, or the clock's
\* second when the request has none) sign different strings and return
\* different signatures.
C3_OneUsedInputChangesSignature ==
    (HMACPair /\ OneDiffers(Used(prevCall), Used(lastCall)))
        => /\ SignedString(prevCall) # SignedString(lastCall)
           /\ Signature(prevCall) # Signature(lastCall)

\* the same request without a timestamp signed in two different seconds
C3_Witness ==
    /\ HMACPair
    /\ prevCall.req = lastCall.req /\ lastCall.req.Timestamp = <<>>
    /\ OneDiffers(Used(prevCall), Used(lastCall))
    /\ Signature(prevCall) # Signature(lastCall)

\* C4 as stated: signing the same SignRequest value again with the same HMAC
\* signer gives the same signature.
C4_SameRequestSameSignature ==
    (HMACPair /\ prevCall.req = lastCall.req)
        => Signature(prevCall) = Signature(lastCall)

\* C4 amended: signing the same SignRequest value again with the same HMAC
\* signer gives the same result when the request carries a timestamp, or when
\* it carries none and both calls read the same clock second.
C4_SameRequestSameTimestampSameResult ==
    (/\ HMACPair
     /\ prevCall.req = lastCall.req
     /\ \/ lastCall.req.Timestamp # <<>>
        \/ Unix(prevCall.at) = Unix(lastCall.at))
        => prevCall.out = lastCall.out

\* a request with a timestamp signed twice, a clock second apart
C4_Witness ==
    /\ HMACPair
    /\ prevCall.req = lastCall.req /\ lastCall.req.Timestamp # <<>>
    /\ Unix(prevCall.at) # Unix(lastCall.at)
    /\ Signature(prevCall) = Signature(lastCall)

ConfigurationErrors == {"failed to decode secret", "failed to sign JWT"}

\* C5: Sign on a constructed HMAC, JWT or Bearer signer never returns an error
\* that comes from its configuration, and Sign on a constructed MPC signer
\* fails only with the external signing function's error.
C5_ConstructedNeverFailsOnConfiguration ==
    (signer.ok /\ lastCall.called /\ ~lastCall.out.ok)
        => IF signer.variant = "mpc"
           THEN lastCall.out.err = <<"MPC signing failed: %w", "external failure">>
           ELSE lastCall.out.err \notin ConfigurationErrors

\* Sign run from its first line to its return with nothing else running: the
\* result for request r, given what the call read from outside
SignAlone(s, r, env) ==
    CASE s.variant = "hmac" -> HMACSignResult(s.config, r, AtSecond(env.unix))
      [] s.variant = "jwt" -> JWTSignResult(s.config, r, AtSecond(env.unix), env.nonce)
      [] s.variant = "bearer" -> BearerSignResult(s.config, r)
      [] s.variant = "mpc" ->
            MPCSignResult(s.config, r, env.unixMilli,
                CHOOSE o \in SignerFuncOutcomes(MPCMessage(MPCTimestamp(r, env.unixMilli), r)) :
                    o.ok = env.externalOK)

\* C10: whatever other Sign calls run at the same time on the same signer,
\* a finished call has returned what Sign returns for its request when it
\* runs alone and reads the same clock, nonce and external answer.
C10_ConcurrentCallsAsAlone ==
    \A c \in Callers :
        calls[c].pc = "done" => calls[c].out = SignAlone(signer, calls[c].req, calls[c].env)

\* an HMAC call that read the clock in second 10 has returned while a call
\* for another request that read the clock in second 9 is still running
C10_Witness ==
    \E c, d \in Callers :
        /\ signer.variant = "hmac"
        /\ calls[c].pc = "done" /\ calls[c].env.unix = 10 /\ calls[c].out.ok
        /\ Running(d) /\ calls[d].env.unix = 9 /\ calls[d].req # calls[c].req

(***************************************************************************)
(* Claims about the signed message                                         *)
(***************************************************************************)
\* the last Sign call was made on a signer of this variant and succeeded
Signed(variant) ==
    signer.variant = variant /\ lastCall.called /\ lastCall.out.ok

\* the message an MPC call handed to the external signing function, and the
\* timestamp it returned
MPCSignedMessage(call) == call.out.Headers["X-SIGNATURE"][2]
MPCSignedTimestamp(call) == call.out.Headers["X-TIMESTAMP"]

\* timestamp, method, path and body bytes of a call, written one after another
Concatenation(timestamp, call) ==
    timestamp \o call.req.Method \o call.req.Path \o call.req.Body.bytes

MessageFormatExpected ==
    <<"1","2","3","4","5","6","7","8","9","0","P","O","S","T","/","a","p","i","/","v","1","/","o","r","d","e","r","s","{","\"","s","y","m","b","o","l","\"",":","\"","B","T","C","-","U","S","D","\"","}">>

\* C11: the message the HMAC and the MPC signer sign is the timestamp, the
\* method, the path and the body one after another and nothing else, the
\* timestamp being the request's when it has one; for the request of the
\* message-format test it is 1234567890POST/api/v1/orders{"symbol":"BTC-USD"}.
C11_SignedMessageIsConcatenation ==
    /\ Signed("hmac") =>
          /\ SignedString(lastCall) = Concatenation(SignedTimestamp(lastCall), lastCall)
          /\ lastCall.req.Timestamp # <<>> =>
                SignedTimestamp(lastCall) = lastCall.req.Timestamp
          /\ lastCall.req = MessageFormatRequest =>
                SignedString(lastCall) = MessageFormatExpected
    /\ Signed("mpc") =>
          /\ MPCSignedMessage(lastCall) =
                Concatenation(MPCSignedTimestamp(lastCall), lastCall)
          /\ lastCall.req.Timestamp # <<>> =>
                MPCSignedTimestamp(lastCall) = lastCall.req.Timestamp
          /\ lastCall.req = MessageFormatRequest =>
                MPCSignedMessage(lastCall) = MessageFormatExpected

\* the MPC signer has signed the request of the message-format test
C11_Witness ==
    /\ Signed("mpc")
    /\ lastCall.req = MessageFormatRequest
    /\ MPCSignedMessage(lastCall) = MessageFormatExpected

\* the last two Sign calls were made on an MPC signer and both succeeded
MPCPair ==
    /\ signer.variant = "mpc"
    /\ prevCall.called /\ lastCall.called
    /\ prevCall.out.ok /\ lastCall.out.ok

\* the last two calls signed requests that are the same but for the body,
\* absent in one and empty in the other
NilBodyAndEmptyBody ==
    /\ {prevCall.req.Body, lastCall.req.Body} = {NilBytes, Bytes(<<>>)}
    /\ [prevCall.req EXCEPT !.Body = NilBytes] = [lastCall.req EXCEPT !.Body = NilBytes]

\* C12 as stated: a request with an absent body and a request with an empty
\* body, the same in every other field, give the same signed message and the
\* same signature, with the HMAC and with the MPC signer.
C12_NilBodySignsAsEmptyBody ==
    /\ (HMACPair /\ NilBodyAndEmptyBody) =>
          /\ SignedString(prevCall) = SignedString(lastCall)
          /\ Signature(prevCall) = Signature(lastCall)
    /\ (MPCPair /\ NilBodyAndEmptyBody) =>
          MPCSignedMessage(prevCall) = MPCSignedMessage(lastCall)

\* C12 amended: the same holds when the two requests carry a timestamp, or
\* carry none and are signed with the same clock reading.
C12_NilBodySignsAsEmptyBodyAtSameTime ==
    /\ (/\ HMACPair /\ NilBodyAndEmptyBody
        /\ \/ lastCall.req.Timestamp # <<>>
           \/ Unix(prevCall.at) = Unix(lastCall.at)) =>
          /\ SignedString(prevCall) = SignedString(lastCall)
          /\ Signature(prevCall) = Signature(lastCall)
    /\ (/\ MPCPair /\ NilBodyAndEmptyBody
        /\ \/ lastCall.req.Timestamp # <<>>
           \/ UnixMilli(prevCall.at) = UnixMilli(lastCall.at)) =>
          /\ MPCSignedMessage(prevCall) = MPCSignedMessage(lastCall)
          /\ prevCall.out = lastCall.out

\* the HMAC signer signed a request with an empty body and then the same
\* request with no body, both with a timestamp
C12_Witness ==
    /\ HMACPair /\ NilBodyAndEmptyBody
    /\ prevCall.req.Body = Bytes(<<>>) /\ lastCall.req.Body = NilBytes
    /\ lastCall.req.Timestamp # <<>>
    /\ Signature(prevCall) = Signature(lastCall)

\* C13: when the external signing function fails, the MPC signer's Sign
\* returns an error that wraps that failure under "MPC signing failed" and
\* returns no headers; a result with headers is returned only with the
\* external function's signature in it.
C13_ExternalFailureIsWrapped ==
    \A c \in Callers :
        (signer.variant = "mpc" /\ calls[c].pc = "done") =>
            IF calls[c].env.externalOK
            THEN /\ calls[c].out.ok
                 /\ DOMAIN calls[c].out.Headers = {"X-API-KEY", "X-TIMESTAMP", "X-SIGNATURE"}
                 /\ calls[c].out.Headers["X-SIGNATURE"][1] = "mpc-signature"
            ELSE /\ ~calls[c].out.ok
                 /\ calls[c].out.err = <<"MPC signing failed: %w", "external failure">>
                 /\ calls[c].out.Headers = <<>>

\* an MPC call has returned after the external signing function failed
C13_Witness ==
    \E c \in Callers :
        /\ signer.variant = "mpc" /\ calls[c].pc = "done"
        /\ ~calls[c].env.externalOK /\ ~calls[c].out.ok

(***************************************************************************)
(* Claims about the enum mappings                                          *)
(***************************************************************************)
MapCases(m) == IF m.venue = "shared" THEN ParseCases[m.kind] ELSE PrimeMapCases[m.kind]

\* the string a mapping compares with its case labels
MapKey(m, s) ==
    CASE m.venue = "prime" -> s
      [] m.venue = "shared" /\ m.kind = "side" -> toLower(TrimSpace(s))
      [] OTHER -> ReplaceAll(ReplaceAll(toLower(TrimSpace(s)), "-", "_"), " ", "_")

Recognized(m, s) == \E row \in MapCases(m) : MapKey(m, s) \in row[1]

Unspecified ==
    [status |-> "ORDER_STATUS_UNSPECIFIED", type |-> "ORDER_TYPE_UNSPECIFIED",
     side |-> "ORDER_SIDE_UNSPECIFIED", tif |-> "TIME_IN_FORCE_UNSPECIFIED"]

\* C14: every enum mapping, shared or venue-specific, returns the
\* unspecified value of its enum for a string that is none of its case labels
C14_UnrecognizedMapsToUnspecified ==
    (enumCall.called /\ ~Recognized(enumCall.mapping, enumCall.s))
        => enumCall.out = Unspecified[enumCall.mapping.kind]

OpenSpellings ==
    { <<"o","p","e","n">>, <<"O","P","E","N">>,
      <<" "," ","o","p","e","n"," "," ">>, <<"n","e","w">>,
      <<"p","e","n","d","i","n","g">> }

\* C15: "open", "OPEN", "  open  ", "new" and "pending" map to OPEN in the
\* shared order-status mapping and in each venue's order-status mapping
C15_OpenSpellingsMapToOpen ==
    (/\ enumCall.called
     /\ enumCall.mapping.kind = "status"
     /\ enumCall.s \in OpenSpellings)
        => enumCall.out = "ORDER_STATUS_OPEN"

(***************************************************************************)
(* Claims about the normalizers                                            *)
(***************************************************************************)
Calls == 1..Len(norm.results)
BookOps == {<<"coinbase", "OrderBook">>, <<"prime", "OrderBook">>}
Succeeded(i) == norm.results[i].out.err = "nil"
RecordOf(i) == norm.results[i].out.record.v

\* the levels as the venue sent them, decoded
SentLevels(op, raw) ==
    IF op[1] = "coinbase"
    THEN Unmarshal(raw, "CoinbaseOrderBook").val.PriceBook
    ELSE Unmarshal(raw, "PrimeOrderBook").val

\* the conversion of one level: no level or one
ConvertedLevel(op, level) ==
    IF op[1] = "coinbase"
    THEN CoinbaseParseOrderBookLevels(<<level>>).levels
    ELSE PrimeParseOrderBookLevels(<<level>>).levels

\* the conversions of the levels, one after the other in the order sent
RECURSIVE InOrderSent(_, _)
InOrderSent(op, levels) ==
    IF levels = <<>> THEN <<>>
    ELSE ConvertedLevel(op, Head(levels)) \o InOrderSent(op, Tail(levels))

FirstPrice(levels) == IF levels = <<>> THEN Nil ELSE levels[1].Price

RECURSIVE NumbersAsStrings(_, _)
NumbersAsStrings(json, inArray) ==
    CASE json.t = "num" /\ inArray -> [json EXCEPT !.t = "str"]
      [] json.t = "arr" ->
           [json EXCEPT !.a = [k \in 1..Len(json.a) |-> NumbersAsStrings(json.a[k], TRUE)]]
      [] json.t = "obj" ->
           [json EXCEPT !.m = [k \in 1..Len(json.m) |->
                                  <<json.m[k][1], NumbersAsStrings(json.m[k][2], inArray)>>]]
      [] OTHER -> json

StringEncoded(raw) == [raw EXCEPT !.json = NumbersAsStrings(raw.json, FALSE)]

\* C17: an order book normalizes to the same bids and asks as the order book
\* whose level numbers are written as strings holding the same text
C17_NumberAndStringLevelsAgree ==
    \A i \in Calls :
        (norm.op \in BookOps /\ Succeeded(i)) =>
            LET strings == NormalizeResult(norm.op, StringEncoded(norm.raw),
                                           norm.results[i].at)
            IN  /\ strings.err = "nil"
                /\ strings.record.v.Bids = RecordOf(i).Bids
                /\ strings.record.v.Asks = RecordOf(i).Asks

\* C18: two calls of one operation on the same raw bytes return equal results
C18_SameBytesSameRecord ==
    \A i, j \in Calls : norm.results[i].out = norm.results[j].out

\* the scalar members of the venue responses and the canonical fields made
\* of them
ScalarFields ==
    { <<<<"coinbase", "Trade">>, "price", "Price">>,
      <<<<"coinbase", "Trade">>, "size", "Quantity">>,
      <<<<"coinbase", "ExecutionReport">>, "price", "Price">>,
      <<<<"coinbase", "ExecutionReport">>, "size", "Quantity">>,
      <<<<"coinbase", "ExecutionReport">>, "commission", "Fee">>,
      <<<<"prime", "Order">>, "limit_price", "Price">>,
      <<<<"prime", "Order">>, "base_quantity", "Quantity">>,
      <<<<"prime", "Order">>, "stop_price", "StopPrice">>,
      <<<<"prime", "Order">>, "filled_quantity", "FilledQuantity">>,
      <<<<"prime", "Order">>, "average_filled_price", "AverageFillPrice">>,
      <<<<"prime", "Order">>, "commission", "TotalFees">>,
      <<<<"prime", "ExecutionReport">>, "fill_price", "Price">>,
      <<<<"prime", "ExecutionReport">>, "fill_qty", "Quantity">>,
      <<<<"prime", "ExecutionReport">>, "fee", "Fee">>,
      <<<<"prime", "Balance">>, "amount", "Total">>,
      <<<<"prime", "Balance">>, "holds", "Locked">> }

\* C19: a scalar member the venue response omits is absent from the
\* canonical record
C19_OmittedFieldIsAbsent ==
    \A i \in Calls : \A f \in ScalarFields :
        (/\ norm.op = f[1] /\ Succeeded(i)
         /\ norm.raw.json.t = "obj"
         /\ ~HasMember(norm.raw.json.m, "trades")
         /\ ~HasMember(norm.raw.json.m, f[2]))
            => RecordOf(i)[f[3]].nil

\* the structs an operation decodes the raw bytes into
ResponseStructs(op) ==
    CASE op = <<"coinbase", "OrderBook">> -> {"CoinbaseOrderBook"}
      [] op = <<"coinbase", "Trade">> -> {"CoinbaseTradesResponse", "CoinbaseTrade"}
      [] op = <<"coinbase", "ExecutionReport">> -> {"CoinbaseFill"}
      [] op = <<"prime", "Order">> -> {"PrimeOrder"}
      [] op = <<"prime", "OrderBook">> -> {"PrimeOrderBook"}
      [] op = <<"prime", "ExecutionReport">> -> {"PrimeFill"}
      [] op = <<"prime", "Balance">> -> {"PrimeBalance"}

\* JSON that is no object, an object with none of the members of the
\* venue response, or one with a member of another JSON type than the
\* response has
NotStructuredAs(op, raw) ==
    /\ raw.kind = "json"
    /\ \/ raw.json.t # "obj"
       \/ \A name \in ResponseStructs(op) : \A k \in 1..Len(Structs[name]) :
              ~HasMember(raw.json.m, Structs[name][k][2])
       \/ \E name \in ResponseStructs(op) : Unmarshal(raw, name).err

\* C20: on empty input, and on input that is not structured as the venue
\* response, an operation returns an error and no record
C20_EmptyOrUnstructuredIsParseError ==
    \A i \in Calls :
        (norm.raw.kind \in {"empty", "syntax error"} \/ NotStructuredAs(norm.op, norm.raw))
            => /\ norm.results[i].out.err # "nil"
               /\ norm.results[i].out.record = Nil

(***************************************************************************)
(* Claims about unparseable error bodies                                   *)
(***************************************************************************)
ErrorKinds == {"plain", "Permanent", "Temporary", "RateLimit"}
Unparseable(body) == ~BodyIsEmpty(body) /\ ~UnmarshalOK(body)

\* C21: for every status code and every body, the body that cannot be
\* parsed included, NormalizeError of both venues returns an error (never
\* nil) whose message carries the status code it was given and, when the
\* body is not empty and cannot be parsed, the raw body.
C21_ErrorCarriesStatusAndRawBody ==
    ErrCalled =>
        /\ nerr.err.kind \in ErrorKinds
        /\ nerr.err.status = nerr.status
        /\ (Unparseable(nerr.body) => nerr.err.raw /\ nerr.err.rawBody = nerr.body)

C21_Witness ==
    /\ ErrCalled
    /\ nerr.body.kind = "malformed"
    /\ nerr.status = 418
    /\ nerr.err.kind = "plain"
    /\ nerr.err.raw

(***************************************************************************)
(* Claims about Unix timestamps                                            *)
(***************************************************************************)
\* the instant as its count of microseconds since the epoch, in digits
Micros(ts) ==
    LET micros == FormatInt(ts.nanos \div 1000)
    IN  StripZeros(ts.seconds \o Zeros(6 - Len(micros)) \o micros)

SameInstantExamples ==
    { <<"1","6","0","9","4","5","9","2","0","0">> \o Zeros(k) : k \in {0, 3, 6} }

Done(t) == {gor[t].done[i] : i \in 1..Len(gor[t].done)}
InFlight(t) == {gor[t].stack[i] : i \in 1..Len(gor[t].stack)}
AllReturned == \A t \in Goroutines : ~Inside(t) /\ gor[t].next > Len(gor[t].program)
ResetRan == \E t \in Goroutines : \E d \in Done(t) : d.op = "Reset"

\* the arguments of the invocations of a method: of those that returned,
\* and of those whose call has been stored and has not returned yet
ReturnedArgs(m) == UNION {{d.arg : d \in {x \in Done(t) : x.op = "call" /\ x.m = m}} :
                          t \in Goroutines}
StoredArgs(m) == UNION {{f.arg : f \in {x \in InFlight(t) :
                                       /\ x.op = "call" /\ x.m = m
                                       /\ x.pc \in {"unlocked", "handler"}}} :
                       t \in Goroutines}

\* C23: in every interleaving of concurrent calls, as long as Reset was not
\* called, the history of each method holds every invocation once: its
\* length (what the XCallCount method returns) is the number of
\* invocations and the arguments of each invocation are at one index (what
\* the XCall(n) method returns); so it is once every call has returned.
C23_NoCallLostOrCountedTwice ==
    ~ResetRan =>
        \A m \in Methods :
            LET history == mock.calls[m]
                invoked == ReturnedArgs(m) \cup StoredArgs(m)
            IN  /\ Len(history) = Cardinality(invoked)
                /\ \A arg \in invoked :
                       Cardinality({n \in 1..Len(history) : history[n] = arg}) = 1
                /\ AllReturned => invoked = ReturnedArgs(m)

\* C23 witness: two goroutines have each called PlaceOrder twice, the calls
\* of the one stored between the calls of the other, and all have returned
C23_Witness ==
    /\ AllReturned /\ ~ResetRan
    /\ Len(mock.calls["PlaceOrder"]) = 2 * MockGoroutines
    /\ mock.calls["PlaceOrder"][1].t # mock.calls["PlaceOrder"][2].t
    /\ mock.calls["PlaceOrder"][2].t # mock.calls["PlaceOrder"][3].t


\* the step in which Reset clears the client
ResetStep(t) == At(t, "Reset", "locked") /\ gor'[t] # gor[t]

\* a goroutine that runs alone: the others have nothing to run
Alone(t) == \A u \in Goroutines \ {t} : gor[u].program = <<>>

\* the calls of a method that returned to the goroutine from entry i of its
\* notes to entry j
CallsBetween(t, m, i, j) ==
    {k \in i..j : gor[t].done[k].op = "call" /\ gor[t].done[k].m = m}

\* what a goroutine running alone sees after the Reset noted at i: until it
\* resets again, every operation takes the default behaviour, every count
\* is the number of calls made since, call 0 is the first call made since,
\* and the first PlaceOrder is mock-order-1
AfterReset(t, i) ==
    LET done == gor[t].done
        last == IF \E j \in i + 1..Len(done) : done[j].op = "Reset"
                THEN (CHOOSE j \in i + 1..Len(done) :
                         /\ done[j].op = "Reset"
                         /\ \A k \in i + 1..j - 1 : done[k].op # "Reset") - 1
                ELSE Len(done)
    IN  \A j \in i + 1..last :
            LET since == CallsBetween(t, done[j].m, i + 1, j - 1)
            IN  CASE done[j].op = "call" ->
                       /\ done[j].out.kind = "default"
                       /\ done[j].m = "PlaceOrder" => done[j].out.n = Cardinality(since) + 1
                  [] done[j].op = "count" -> done[j].out.n = Cardinality(since)
                  [] done[j].op = "args" ->
                       IF since = {} THEN done[j].out.kind = "panic"
                       ELSE \E k \in since :
                              /\ \A x \in since : k <= x
                              /\ done[j].out.arg = done[k].arg
                  [] OTHER -> TRUE

\* C24: the step of Reset leaves every handler nil and every history empty,
\* as in a new Client; and for a goroutine that uses the client alone, the
\* calls after Reset take the default behaviour and are counted from one.
C24_ResetRestoresInitialState ==
    /\ [][\A t \in Goroutines :
             ResetStep(t) => mock'.On = NewClient.On /\ mock'.calls = NewClient.calls]_vars
    /\ [](\A t \in Goroutines :
             Alone(t) => \A i \in 1..Len(gor[t].done) :
                            gor[t].done[i].op = "Reset" => AfterReset(t, i))

\* C24 witness: a handler was set and used, Reset was called, and the
\* goroutine has since called the method again and asked for its count
C24_Witness ==
    /\ Alone(1) /\ Len(gor[1].done) >= 6
    /\ gor[1].done[1].op = "call" /\ gor[1].done[1].out.kind = "handler"
    /\ gor[1].done[3].op = "Reset"
    /\ gor[1].done[5].op = "call" /\ gor[1].done[5].out.kind = "default"
    /\ gor[1].done[6].op = "count" /\ gor[1].done[6].out.n = 1
    /\ mock.On = NewClient.On


\* the PlaceOrder calls that returned the default report
DefaultPlaceOrders ==
    UNION {{d \in Done(t) : d.op = "call" /\ d.m = "PlaceOrder" /\ d.out.kind = "default"} :
              t \in Goroutines}

\* C27: with no handler configured and no Reset, a PlaceOrder call returns
\* the execution id mock-order-k where the call is the k-th of the
\* history, so no two calls return the same execution id.
C27_DefaultIdIsOwnPosition ==
    ~ResetRan =>
        /\ \A d \in DefaultPlaceOrders :
               /\ d.out.n \in 1..Len(mock.calls["PlaceOrder"])
               /\ mock.calls["PlaceOrder"][d.out.n] = d.arg
        /\ \A d, e \in DefaultPlaceOrders : d.arg # e.arg => d.out.n # e.out.n


\* the handler of goroutine t has called a method of the client
InHandlerCall(t) == Len(gor[t].stack) = 2

\* C28: a handler is called with the lock released: when a handler calls a
\* method of the same client (another operation, a call-count query or
\* Reset), that call returns and the handler returns: from any state with a
\* goroutine inside such a call, every call of every goroutine returns.
C28_ReentrantHandlerCompletes ==
    (\E t \in Goroutines : InHandlerCall(t)) ~> AllReturned

\* C28 witness: a handler called Reset, Reset returned, the handler returned
C28_Witness ==
    \E t \in Goroutines :
        \E inner, outer \in Done(t) :
            /\ inner.op = "Reset" /\ inner.arg.nested /\ inner.depth = 2
            /\ outer.op = "call" /\ outer.depth = 1
            /\ outer.out.kind = "handler" /\ outer.out.s = "callsReset"

(***************************************************************************)
(* Claims about the middleware's failures and call counts                  *)
(***************************************************************************)
\* the caller's body is a reader whose Read fails, and RoundTrip has read it
ReadFailed == ~orig.Body.nil /\ orig.Body.fails /\ mwpc # "start"

\* C30: when reading the request body fails, RoundTrip returns that failure
\* with no response, and neither the Signer nor the wrapped transport has
\* been invoked.
C30_ReadFailureReturnedNothingInvoked ==
    ReadFailed =>
        /\ mwpc = "returned"
        /\ ret = [resp |-> "nil", err |-> "read failed"]
        /\ signerCalls = 0 /\ signReq = NoSignRequest
        /\ transportCalls = 0 /\ sent = NotSent

\* C30 witness: the failing body was read once and RoundTrip returned the
\* failure
C30_Witness ==
    /\ ReadFailed /\ origReads = 1
    /\ ret.err = "read failed" /\ ret.resp = "nil"

\* the Signer returned a result without an error
SigningSucceeded == signRes.returned /\ signRes.err = "nil"

\* the MPC Sign calls that have reached the external signing function
MPCCalls == {c \in Callers : signer.variant = "mpc" /\ calls[c].pc \in {"running", "done"}}

\* C26 as stated: when RoundTrip has returned the Signer was invoked exactly
\* once and the wrapped transport at most once, exactly once when signing
\* succeeded; an MPC Sign call has invoked the external signing function
\* exactly once.
C26_SignerExactlyOnce ==
    /\ mwpc = "returned" =>
          /\ signerCalls = 1
          /\ transportCalls <= 1
          /\ SigningSucceeded => transportCalls = 1
    /\ \A c \in MPCCalls : CallLocals(c).signerFuncCalls = 1

\* C26, amended: the Signer and the wrapped transport are never invoked
\* twice for one request; when RoundTrip has returned, the Signer was invoked
\* once unless reading the body failed (then not at all), and the transport
\* once when signing succeeded and not at all otherwise; an MPC Sign call
\* has invoked the external signing function exactly once.
C26_NoRetries ==
    /\ signerCalls <= 1 /\ transportCalls <= 1
    /\ mwpc = "returned" =>
          /\ signerCalls = (IF ReadFailed THEN 0 ELSE 1)
          /\ transportCalls = (IF SigningSucceeded THEN 1 ELSE 0)
    /\ \A c \in MPCCalls : CallLocals(c).signerFuncCalls = 1

\* C26 witness: one behaviour where RoundTrip returned the transport's
\* failure after one Signer call and one transport call
C26_Witness ==
    /\ mwpc = "returned" /\ SigningSucceeded
    /\ ret = [resp |-> "nil", err |-> "transport failed"]
    /\ signerCalls = 1 /\ transportCalls = 1

\* an MPC Sign call returned the external function's failure after one call
C26_WitnessMPC ==
    \E c \in MPCCalls :
        /\ calls[c].pc = "done" /\ ~calls[c].env.externalOK /\ ~calls[c].out.ok
        /\ CallLocals(c).signerFuncCalls = 1

(***************************************************************************)
(* Claims about the signed message as the identity of the request          *)
(***************************************************************************)
\* what MPC signs of a call: method, path, body text and the timestamp used
MPCUsed(call) ==
    [Method |-> call.req.Method, Path |-> call.req.Path,
     Timestamp |-> MPCSignedTimestamp(call), Body |-> BodyString(call.req.Body)]

\* C25: two Sign calls, on the HMAC or the MPC signer, that differ in any of
\* the timestamp signed, the method, the path or the body text never sign
\* the same message, and so never get the same signature.
C25_SignedMessageIdentifiesRequest ==
    /\ (HMACPair /\ Used(prevCall) # Used(lastCall))
          => /\ SignedString(prevCall) # SignedString(lastCall)
             /\ Signature(prevCall) # Signature(lastCall)
    /\ (MPCPair /\ MPCUsed(prevCall) # MPCUsed(lastCall))
          => MPCSignedMessage(prevCall) # MPCSignedMessage(lastCall)

\* the MPC half of C25 alone
C25_MPCMessageIdentifiesRequest ==
    (MPCPair /\ MPCUsed(prevCall) # MPCUsed(lastCall))
        => MPCSignedMessage(prevCall) # MPCSignedMessage(lastCall)

(***************************************************************************)
(* Claims about the levels of an order book                                *)
(***************************************************************************)
\* the output levels are as many as the levels sent, and each is the
\* conversion of the level sent at its place
LevelForLevel(op, levels, out) ==
    /\ Len(out) = Len(levels)
    /\ \A k \in 1..Len(out) :
          k <= Len(levels) => ConvertedLevel(op, levels[k]) = <<out[k]>>

\* C29: a normalized order book has as many bids and asks as the venue
\* sent, and its i-th bid (ask) is the conversion of the i-th bid (ask)
\* sent, for both venues.
C29_EveryLevelKept ==
    \A i \in Calls :
        (norm.op \in BookOps /\ Succeeded(i)) =>
            /\ LevelForLevel(norm.op, SentLevels(norm.op, norm.raw).Bids, RecordOf(i).Bids)
            /\ LevelForLevel(norm.op, SentLevels(norm.op, norm.raw).Asks, RecordOf(i).Asks)

\* C29 for the coinbase normalizer alone
C29_CoinbaseEveryLevelKept ==
    \A i \in Calls :
        (norm.op = <<"coinbase", "OrderBook">> /\ Succeeded(i)) =>
            /\ LevelForLevel(norm.op, SentLevels(norm.op, norm.raw).Bids, RecordOf(i).Bids)
            /\ LevelForLevel(norm.op, SentLevels(norm.op, norm.raw).Asks, RecordOf(i).Asks)
====
